---- MODULE Spec2Model ----
(***************************************************************************)
(* GitNexus: the worker pool of the ingestion pipeline (createWorkerPool)  *)
(* and the MCP daemon that routes tool calls between MCP clients and the   *)
(* browser (daemonCommand, DaemonClient); the graph tools of the agent      *)
(* (search, cypher, blastRadius) and walkRepository.                       *)
(***************************************************************************)
EXTENDS Integers, Sequences, FiniteSets, TLC

\* ------------------------------------------------------------------ bounds
MaxLen == 4        \* longest input list handed to dispatch
MaxPool == 3       \* largest pool size of createWorkerPool
MaxProgress == 2   \* progress messages the workers of a pool emit in all
NumClients == 2    \* DaemonClient instances (MCP servers)
MaxReq == 2        \* callTool calls of all DaemonClients together
MaxBrowsers == 2   \* browser connections the daemon sees in its life
MaxDepthArg == 5   \* largest maxDepth a caller passes to blastRadius, besides 11
MaxHits == 2       \* most rows a ranking collaborator returns to search
MaxConn == 4       \* most neighbours per direction the connections query returns
MaxReconnect == 1  \* most sockets of one client closed and not yet reported closed
MaxToolIds == 1    \* tool call ids the agent uses
MaxEvents == 2     \* events of one agent stream
MaxFiles == 40     \* most files left after the ignore filter of walkRepository

VARIABLES
    \* ---- createWorkerPool closure
    size,          \* const size
    workersLen,    \* workers.length
    alive,         \* worker thread i is running
    inbox,         \* chunks posted to worker i that it has not finished
    msgListeners,  \* dispatches whose handler is a 'message' listener of worker i
    errListeners,  \* dispatches whose once('error') listener is on worker i
    termState,     \* terminate(): "none", "awaiting" (in Promise.all), "done"
    \* ---- dispatch calls, in call order
    dispatches,    \* one record per call: its closure and its promise
    callsLeft,     \* dispatch calls the caller still makes
    \* ---- history
    posted,        \* every chunk postMessage handed to worker i
    installed,     \* dispatches that ever called worker.on / worker.once on i
    finalSent,     \* <<d, i>>: worker i emitted the final message of d's chunk
    errorSent,     \* <<d, i>>: worker i emitted 'error' with d's chunk unfinished
    progressMsgs,  \* progress messages emitted so far
    \* ---- daemonCommand
    browserClient, \* the browser socket, 0 for null
    currentContext,\* 0 for null, else the browser whose context it is
    mcpClients,    \* Set<WebSocket> of the MCP connections
    daemonPending, \* pendingRequests: request id -> MCP client
    bsock,         \* readyState of browser socket b: none, open, closing, closed
    atBrowser,     \* tool calls forwarded to a browser and not yet answered
    \* ---- DaemonClient c
    clients,       \* ws, requestId, pendingRequests, _context, the callTool promises
    received,      \* history: <<id, origin>> of every response handed to c
    oldSocks,      \* sockets c has closed by disconnect() with their 'close' event still to come
    \* ---- WebSocketBridge
    wbStarted,     \* this.started
    wbClient,      \* this.client: the browser socket, 0 for null
    wbSock,        \* readyState of browser socket b: none, open, closing, closed
    wbRequestId,   \* this.requestId
    wbPending,     \* keys of this.pendingRequests
    wbCalls,       \* the callTool promises in call order: [id, state], id 0 if it threw
    wbAtBrowser,   \* requests sent to a browser and not yet answered
    \* ---- the graph store behind executeQuery
    graph,         \* the CodeRelation rows: <<sourceId, type, targetId>>
    \* ---- blastRadiusTool, one call at a time
    brPc,          \* "idle", "findTarget" (await line 414), "depthQueries" (line 451), "returned"
    brArgs,        \* { target, direction, maxDepth } of the call
    targetResults, \* rows of findTargetQuery
    depthQueries,  \* the hop counts d a query was pushed for, in push order
    storeFailed,   \* queries of the call the store rejected: d, 0 for the lookup
    depthResults,  \* what Promise.all(depthQueries) gave
    byDepth,       \* Map d -> rows, <<>> for an absent key
    allNodeIds,
    totalAffected,
    brReturn,      \* which return statement the call left by, "none" while it runs
    \* ---- searchTool and cypherTool
    bm25Ready,     \* isBM25Ready()
    embeddingReady,\* isEmbeddingReady()
    searchPc,      \* "idle", "hybrid" (await line 47), "semantic51", "semantic56"
    searchLimit,   \* limit of the call, 0 for undefined
    rankCalls,     \* ranking collaborators the call has invoked, in order
    rankFailed,    \* those of them that threw
    searchResults,
    connRes,       \* per listed result what its connections query gave
    connections,   \* per listed result <<outgoing shown, incoming shown>>
    searchReturn,  \* "none", "unavailable", "no_code", "found", "thrown"
    cyPc,          \* "idle", "init", "initWasm", "embed", "execute"
    cyArgs,        \* [query |-> given, vector |-> cypher has {{QUERY_VECTOR}}]
    initCalls,     \* initEmbedder calls of the cypher call and how each ended
    storeQueries,  \* executeQuery calls the cypher call has made
    cyRows,        \* results.length
    cyReturn,      \* "none" or the return statement taken
    \* ---- walkRepository
    filteredLen,   \* filtered.length
    walkPc,        \* "glob", "reading" (await line 29), "returned"
    start,         \* loop variable
    inFlight,      \* reads started and not settled
    fulfilled,     \* reads of the current batch settled with content
    rejected,      \* reads of the current batch that failed
    processed,
    entriesLen,    \* entries.length
    \* ---- streamAgentResponse, one run
    saPc,          \* "idle", "awaitStream" (line 607), "streaming" (for await), "ended"
    saChunks,      \* the chunks yielded so far: [type, id], id 0 when it has none
    yieldedToolCalls,
    yieldedToolResults,
    lastProcessedMsgCount, \* counted from formattedMessages.length
    allToolsDone,
    hasSeenToolCallThisTurn,
    saEvents,      \* events the agent stream has delivered
    saDelivered,   \* history: <<mode, kind, id>> of the tool ids the events carried
    saOutcome      \* "none", "completed" (the stream ended), "threw"

poolVars == <<size, workersLen, alive, inbox, msgListeners, errListeners,
              termState, dispatches, callsLeft, posted, installed, finalSent,
              errorSent, progressMsgs>>

daemonVars == <<browserClient, currentContext, mcpClients, daemonPending, bsock,
                atBrowser, clients, received>>

blastVars == <<graph, brPc, brArgs, targetResults, depthQueries, storeFailed,
               depthResults, byDepth, allNodeIds, totalAffected, brReturn>>

flagVars == <<bm25Ready, embeddingReady>>

searchVars == <<searchPc, searchLimit, rankCalls, rankFailed, searchResults,
                connRes, connections, searchReturn>>

cypherVars == <<cyPc, cyArgs, initCalls, storeQueries, cyRows, cyReturn>>

walkVars == <<filteredLen, walkPc, start, inFlight, fulfilled, rejected,
              processed, entriesLen>>

toolVars == <<blastVars, flagVars, searchVars, cypherVars, walkVars>>

bridgeVars == <<wbStarted, wbClient, wbSock, wbRequestId, wbPending, wbCalls,
                wbAtBrowser>>

agentVars == <<saPc, saChunks, yieldedToolCalls, yieldedToolResults,
               lastProcessedMsgCount, allToolsDone, hasSeenToolCallThisTurn,
               saEvents, saDelivered, saOutcome>>

\* the other components: the bridge, the clients' old sockets, the agent stream
peerVars == <<bridgeVars, oldSocks, agentVars>>

vars == <<poolVars, daemonVars, toolVars, peerVars>>

\* what a step of the pool, or of the daemon, leaves alone
nonPoolVars == <<daemonVars, toolVars, peerVars>>
nonDaemonVars == <<poolVars, toolVars, peerVars>>
nonBridgeVars == <<poolVars, daemonVars, toolVars, oldSocks, agentVars>>

\* ------------------------------------------------------------- arithmetic
Min(a, b) == IF a <= b THEN a ELSE b

\* Math.max(1, Math.floor(n / p)): the chunk size rounded down
FloorAtLeast1(n, p) == IF n \div p < 1 THEN 1 ELSE n \div p

\* Math.ceil(n / p) for n >= 0, p >= 1
Ceil(n, p) == (n + p - 1) \div p

RECURSIVE SumSeq(_)
\* workerProgress.reduce((a, b) => a + b, 0)
SumSeq(s) == IF s = <<>> THEN 0 ELSE Head(s) + SumSeq(Tail(s))

\* Array.prototype.slice(a, b) for 0 <= a <= b
Slice(s, a, b) == SubSeq(s, a + 1, Min(b, Len(s)))

\* ----------------------------------------------------------------- inputs
\* The input lists: n distinct items, so that every position is visible.
Inputs == {[k \in 1..n |-> k] : n \in 0..MaxLen}

\* What the worker script computes for one item, and for a chunk.
ItemResult(x) == 100 + x
WorkerResult(chunk) == [k \in 1..Len(chunk) |-> ItemResult(chunk[k])]

\* --------------------------------------------------------------- chunking
RECURSIVE ChunksFromSliceLen(_, _, _)
\* items.slice(i, chunkSize): the end index taken for a length
ChunksFromSliceLen(items, i, chunkSize) ==
    IF i < Len(items)
    THEN <<Slice(items, i, chunkSize)>> \o ChunksFromSliceLen(items, i + chunkSize, chunkSize)
    ELSE <<>>

RECURSIVE ChunksFrom(_, _, _)
\* for (let i = 0; i < items.length; i += chunkSize) chunks.push(items.slice(i, i + chunkSize))
ChunksFrom(items, i, chunkSize) ==
    IF i < Len(items)
    THEN <<Slice(items, i, i + chunkSize)>> \o ChunksFrom(items, i + chunkSize, chunkSize)
    ELSE <<>>

\* One chunk per worker whatever the input, the empty input included.
DispatchChunksPerWorker(items, P) ==
    [w \in 1..P |-> Slice(items, (w - 1) * Ceil(Len(items), P), w * Ceil(Len(items), P))]

\* The chunks a dispatch sends: none for an empty input (the early return),
\* else the slices of Math.ceil(items.length / size) items.
DispatchChunks(items, P) ==
    IF Len(items) = 0 THEN <<>> ELSE ChunksFrom(items, 0, Ceil(Len(items), P))

\* ------------------------------------------------------------ Promise.all
\* Settles in completion order: rejections are skipped, the rest is returned.
PromiseAllSettledValues(state, promise, values) ==
    IF state # "pending" THEN <<state, <<>>>>
    ELSE IF \A i \in DOMAIN promise : promise[i] # "pending"
         THEN <<"resolved", values>>
         ELSE <<"pending", <<>>>>

\* Promise.all(promises): rejected with the first rejection, resolved with the
\* values in the order of `promises` once every one is resolved.
PromiseAll(state, promise, values) ==
    IF state # "pending" THEN <<state, <<>>>>
    ELSE IF \E i \in DOMAIN promise : promise[i] = "rejected"
         THEN <<"rejected", <<>>>>
         ELSE IF \A i \in DOMAIN promise : promise[i] = "resolved"
              THEN <<"resolved", values>>
              ELSE <<"pending", <<>>>>

\* The dispatch record after one of its chunk promises changed.
Settle(rec) ==
    LET all == PromiseAll(rec.state, rec.promise, rec.values)
    IN  IF rec.state # "pending" THEN rec
        ELSE [rec EXCEPT !.state = all[1], !.result = all[2]]

\* results.push(data): a chunk's value lands behind those that came before it.
StoreInCompletionOrder(values, promise, i, data) ==
    [values EXCEPT ![Cardinality({k \in DOMAIN promise : promise[k] = "resolved"}) + 1] = data]

\* promises[i] resolves with data: Promise.all keeps it at index i.
StoreValue(values, promise, i, data) == [values EXCEPT ![i] = data]

\* resolve(data) of promise i; a settled promise ignores it.
ResolveChunk(rec, i, data) ==
    IF rec.promise[i] # "pending" THEN rec
    ELSE Settle([rec EXCEPT !.values = StoreValue(rec.values, rec.promise, i, data),
                            !.promise[i] = "resolved",
                            !.order = Append(@, i)])

\* reject(err) of promise i; a settled promise ignores it.
RejectChunk(rec, i) ==
    IF rec.promise[i] # "pending" THEN rec
    ELSE Settle([rec EXCEPT !.promise[i] = "rejected"])

\* ---------------------------------------------------------------- handler
ProgressMsg(n) == [type |-> "progress", filesProcessed |-> n, data |-> <<>>]
ResultMsg(v)   == [type |-> "result", filesProcessed |-> 0, data |-> v]
\* a message without a type: the message itself is the result
LegacyMsg(v)   == [type |-> "none", filesProcessed |-> 0, data |-> v]

\* The progress branch is missing: a progress message falls through to the
\* legacy branch.
IsProgressNever(msg) == FALSE

\* msg && msg.type === 'progress'
IsProgress(msg) == msg.type = "progress"

\* const handler = (msg) => {...} of chunk i, run on the dispatch's closure.
Handler(rec, i, msg) ==
    IF IsProgress(msg)
    THEN LET wp == [rec.workerProgress EXCEPT ![i] = msg.filesProcessed]
         IN  IF rec.onProgress
             THEN [rec EXCEPT !.workerProgress = wp,
                              !.lastTotal = SumSeq(wp),
                              !.progressCalls = @ + 1]
             ELSE [rec EXCEPT !.workerProgress = wp]
    ELSE ResolveChunk(rec, i, msg.data)

\* ============================================================ MCP daemon
\* What the daemon sends to an MCP client. origin is not on the wire: it names
\* the client whose request a response answers.
ContextUpdate(ctx) ==
    [type |-> "context_update", context |-> ctx, id |-> 0, origin |-> 0, error |-> FALSE]
ResponseWithoutError(id, origin, err, result) ==
    [type |-> "response", context |-> result, id |-> id, origin |-> origin, error |-> FALSE]
Response(id, origin, err, result) ==
    [type |-> "response", context |-> result, id |-> id, origin |-> origin, error |-> err]

\* DaemonClient.handleMessage(msg) on the state cl of one client
HandleMessage(cl, msg) ==
    IF msg.type = "context_update" /\ msg.context # 0
    THEN [cl EXCEPT !.context = msg.context]
    ELSE IF msg.id # 0 /\ msg.id \in cl.pending
         THEN [cl EXCEPT !.pending = @ \ {msg.id},
                         !.calls[msg.id] = IF msg.error THEN "rejected" ELSE "resolved"]
         ELSE cl

\* client.send(msg) to every client of S, and the 'message' event there
SendTo(S, msg, cls) ==
    /\ clients' = [c \in 1..NumClients |->
                      IF c \in S THEN HandleMessage(cls[c], msg) ELSE cls[c]]
    /\ received' = [c \in 1..NumClients |->
                      IF c \in S /\ msg.type = "response"
                      THEN received[c] \cup {<<msg.id, msg.origin>>}
                      ELSE received[c]]

IsOpen(c) == clients[c].ws = "open"

RECURSIVE CallsMade(_)
\* the callTool calls the clients 1..n have made
CallsMade(n) == IF n = 0 THEN 0 ELSE clients[n].requestId + CallsMade(n - 1)

\* wss.on('connection') with a path other than /mcp
BrowserConnect(b) ==
    /\ bsock[b] = "none"
    /\ \A a \in 1..(b - 1) : bsock[a] # "none"
    \* if (browserClient) browserClient.close()
    /\ bsock' = [a \in 1..MaxBrowsers |->
                    IF a = b THEN "open"
                    ELSE IF a = browserClient /\ bsock[a] = "open" THEN "closing"
                    ELSE bsock[a]]
    /\ browserClient' = b
    /\ UNCHANGED <<currentContext, mcpClients, daemonPending, atBrowser, clients, received>>

\* browser b sends { type: 'context', params }: the 'message' handler of its socket
BrowserContext(b) ==
    /\ bsock[b] \in {"open", "closing"}
    /\ currentContext' = b
    /\ SendTo({c \in mcpClients : IsOpen(c)}, ContextUpdate(b), clients)
    /\ UNCHANGED <<browserClient, mcpClients, daemonPending, bsock, atBrowser>>

\* browser r.b answers the forwarded call r: the 'message' handler of its socket
BrowserRespond(r, err) ==
    /\ r \in atBrowser
    /\ bsock[r.b] \in {"open", "closing"}
    /\ atBrowser' = atBrowser \ {r}
    /\ IF daemonPending[r.id] # 0
       THEN /\ daemonPending' = [daemonPending EXCEPT ![r.id] = 0]
            /\ SendTo(IF IsOpen(daemonPending[r.id]) THEN {daemonPending[r.id]} ELSE {},
                      Response(r.id, r.origin, err, 0), clients)
       ELSE UNCHANGED <<daemonPending, clients, received>>
    /\ UNCHANGED <<browserClient, currentContext, mcpClients, bsock>>

\* the 'close' handler without its test of browserClient === ws
BrowserCloseUnchecked(b) ==
    /\ bsock[b] \in {"open", "closing"}
    /\ bsock' = [bsock EXCEPT ![b] = "closed"]
    /\ atBrowser' = {r \in atBrowser : r.b # b}
    /\ browserClient' = 0
    /\ currentContext' = 0
    /\ UNCHANGED <<mcpClients, daemonPending, clients, received>>

\* the 'close' event of browser socket b
BrowserClose(b) ==
    /\ bsock[b] \in {"open", "closing"}
    /\ bsock' = [bsock EXCEPT ![b] = "closed"]
    /\ atBrowser' = {r \in atBrowser : r.b # b}
    /\ IF browserClient = b
       THEN browserClient' = 0 /\ currentContext' = 0
       ELSE UNCHANGED <<browserClient, currentContext>>
    /\ UNCHANGED <<mcpClients, daemonPending, clients, received>>

\* DaemonClient.connect() of client c and wss.on('connection') with path /mcp
McpConnect(c) ==
    /\ clients[c].ws = "none"
    /\ mcpClients' = mcpClients \cup {c}
    /\ LET cls == [clients EXCEPT ![c].ws = "open"]
       IN  IF currentContext # 0
           THEN SendTo({c}, ContextUpdate(currentContext), cls)
           ELSE clients' = cls /\ UNCHANGED received
    /\ UNCHANGED <<browserClient, currentContext, daemonPending, bsock, atBrowser>>

\* DaemonClient.callTool(method, params) of client c, and the daemon's
\* 'message' handler of c's socket
CallTool(c, method) ==
    /\ IsOpen(c)
    /\ CallsMade(NumClients) < MaxReq
    /\ LET id == clients[c].requestId + 1
           cls == [clients EXCEPT ![c].requestId = id,
                                  ![c].pending = @ \cup {id},
                                  ![c].calls = Append(@, "pending")]
       IN  IF method = "getContext"
           THEN /\ SendTo({c}, Response(id, c, FALSE, currentContext), cls)
                /\ UNCHANGED <<daemonPending, atBrowser>>
           ELSE IF browserClient # 0 /\ bsock[browserClient] = "open"
                THEN /\ daemonPending' = [daemonPending EXCEPT ![id] = c]
                     /\ atBrowser' = atBrowser \cup
                            {[b |-> browserClient, id |-> id, origin |-> c]}
                     /\ clients' = cls
                     /\ UNCHANGED received
                ELSE /\ SendTo({c}, Response(id, c, TRUE, 0), cls)
                     /\ UNCHANGED <<daemonPending, atBrowser>>
    /\ UNCHANGED <<browserClient, currentContext, mcpClients, bsock>>

\* the 30 s timer of callTool
CallTimeout(c, id) ==
    /\ id \in clients[c].pending
    /\ clients' = [clients EXCEPT ![c].pending = @ \ {id},
                                  ![c].calls[id] = "rejected"]
    /\ UNCHANGED <<browserClient, currentContext, mcpClients, daemonPending, bsock,
                   atBrowser, received>>

\* the socket of client c closes: the 'close' events at both ends
McpClose(c) ==
    /\ IsOpen(c)
    /\ mcpClients' = mcpClients \ {c}
    /\ clients' = [clients EXCEPT
            ![c].ws = "closed",
            ![c].context = 0,
            ![c].pending = {},
            ![c].calls = [n \in DOMAIN @ |->
                            IF n \in clients[c].pending THEN "rejected" ELSE @[n]]]
    /\ UNCHANGED <<browserClient, currentContext, daemonPending, bsock, atBrowser, received>>


\* ======================================================= WebSocketBridge
\* new WebSocketBridge(), and whether start() got the port
NewBridge(started) ==
    /\ wbStarted = started
    /\ wbClient = 0
    /\ wbSock = [b \in 1..MaxBrowsers |-> "none"]
    /\ wbRequestId = 0
    /\ wbPending = {}
    /\ wbCalls = <<>>
    /\ wbAtBrowser = {}

\* get isConnected
WbIsConnected == wbClient # 0 /\ wbSock[wbClient] = "open"

\* resolve or reject of the promise callTool made for id
WbSettle(calls, id, state) ==
    [i \in DOMAIN calls |->
        IF calls[i].id = id THEN [calls[i] EXCEPT !.state = state] ELSE calls[i]]

\* wss.on('connection') of the bridge
WbConnect(b) ==
    /\ wbStarted
    /\ wbSock[b] = "none"
    /\ \A a \in 1..(b - 1) : wbSock[a] # "none"
    \* if (this.client) this.client.close()
    /\ wbSock' = [a \in 1..MaxBrowsers |->
                     IF a = b THEN "open"
                     ELSE IF a = wbClient /\ wbSock[a] = "open" THEN "closing"
                     ELSE wbSock[a]]
    /\ wbClient' = b
    /\ UNCHANGED <<wbStarted, wbRequestId, wbPending, wbCalls, wbAtBrowser>>

\* the 'close' event of browser socket b of the bridge
WbClose(b) ==
    /\ wbSock[b] \in {"open", "closing"}
    /\ wbSock' = [wbSock EXCEPT ![b] = "closed"]
    /\ wbAtBrowser' = {r \in wbAtBrowser : r.b # b}
    /\ wbClient' = IF wbClient = b THEN 0 ELSE wbClient
    /\ UNCHANGED <<wbStarted, wbRequestId, wbPending, wbCalls>>

\* WebSocketBridge.callTool(method, params)
WbCallTool ==
    /\ wbStarted
    /\ Len(wbCalls) < MaxReq
    /\ IF ~WbIsConnected
       THEN /\ wbCalls' = Append(wbCalls, [id |-> 0, state |-> "rejected"])
            /\ UNCHANGED <<wbRequestId, wbPending, wbAtBrowser>>
       ELSE LET id == wbRequestId + 1
            IN  /\ wbRequestId' = id
                /\ wbPending' = wbPending \cup {id}
                /\ wbAtBrowser' = wbAtBrowser \cup {[b |-> wbClient, id |-> id]}
                /\ wbCalls' = Append(wbCalls, [id |-> id, state |-> "pending"])
    /\ UNCHANGED <<wbStarted, wbClient, wbSock>>

\* browser r.b answers request r: ws.on('message') and handleMessage(msg)
WbHandleMessage(r, err) ==
    /\ r \in wbAtBrowser
    /\ wbSock[r.b] \in {"open", "closing"}
    /\ wbAtBrowser' = wbAtBrowser \ {r}
    /\ IF r.id # 0 /\ r.id \in wbPending
       THEN /\ wbPending' = wbPending \ {r.id}
            /\ wbCalls' = WbSettle(wbCalls, r.id, IF err THEN "rejected" ELSE "resolved")
       ELSE UNCHANGED <<wbPending, wbCalls>>
    /\ UNCHANGED <<wbStarted, wbClient, wbSock, wbRequestId>>

\* the 30 s timer of the bridge's callTool
WbTimeout(id) ==
    /\ id \in wbPending
    /\ wbPending' = wbPending \ {id}
    /\ wbCalls' = WbSettle(wbCalls, id, "rejected")
    /\ UNCHANGED <<wbStarted, wbClient, wbSock, wbRequestId, wbAtBrowser>>

\* ------------------------------------------- DaemonClient, reconnecting
NoOldSocks == oldSocks = [c \in 1..NumClients |-> 0]

\* DaemonClient.disconnect() of client c: this.ws.close(), this.ws = null;
\* the daemon's 'close' handler drops the socket from mcpClients
Disconnect(c) ==
    /\ IsOpen(c)
    /\ oldSocks[c] < MaxReconnect
    /\ oldSocks' = [oldSocks EXCEPT ![c] = @ + 1]
    /\ clients' = [clients EXCEPT ![c].ws = "none"]
    /\ mcpClients' = mcpClients \ {c}
    /\ UNCHANGED <<browserClient, currentContext, daemonPending, bsock, atBrowser, received>>

\* the 'close' event of a socket of c that disconnect() has closed: the
\* handler connect() put on it
OldSocketClose(c) ==
    /\ oldSocks[c] > 0
    /\ oldSocks' = [oldSocks EXCEPT ![c] = @ - 1]
    /\ clients' = [clients EXCEPT
            ![c].ws = IF @ = "open" THEN "none" ELSE @,
            ![c].context = 0,
            ![c].pending = {},
            ![c].calls = [n \in DOMAIN @ |->
                            IF n \in clients[c].pending THEN "rejected" ELSE @[n]]]
    /\ UNCHANGED <<browserClient, currentContext, mcpClients, daemonPending, bsock,
                   atBrowser, received>>

\* ------------------------------------------------------------------- Init
\* createWorkerPool(workerUrl, P): P workers, no listener, nothing posted.
FreshPool(P) ==
    /\ size = P
    /\ workersLen = P
    /\ alive = [w \in 1..P |-> TRUE]
    /\ inbox = [w \in 1..P |-> <<>>]
    /\ msgListeners = [w \in 1..P |-> {}]
    /\ errListeners = [w \in 1..P |-> {}]
    /\ termState = "none"
    /\ posted = [w \in 1..P |-> <<>>]
    /\ installed = [w \in 1..P |-> {}]
    /\ finalSent = {}
    /\ errorSent = {}
    /\ progressMsgs = 0

\* A pool of any size and a caller that dispatches on it once, at any moment
\* of the pool's life.
InitPool ==
    /\ \E P \in 1..MaxPool : FreshPool(P)
    /\ dispatches = <<>>
    /\ callsLeft = 1

\* daemonCommand has started, no connection yet; no DaemonClient has connected.
InitDaemon ==
    /\ browserClient = 0
    /\ currentContext = 0
    /\ mcpClients = {}
    /\ daemonPending = [id \in 1..MaxReq |-> 0]
    /\ bsock = [b \in 1..MaxBrowsers |-> "none"]
    /\ atBrowser = {}
    /\ clients = [c \in 1..NumClients |->
                     [ws |-> "none", requestId |-> 0, pending |-> {},
                      context |-> 0, calls |-> <<>>]]
    /\ received = [c \in 1..NumClients |-> {}]

\* ============================================================ graph store
\* The nodes of a small repository: folder src with a.ts (defines foo) and
\* b.ts (defines bar), and the community foo was put in.
NodeIds == {"Folder:src", "File:a.ts", "File:b.ts",
            "Function:a.ts:foo", "Function:b.ts:bar", "Community:comm_0"}

\* n.name
NodeName(id) ==
    CASE id = "Folder:src" -> "src"
      [] id = "File:a.ts" -> "a.ts"
      [] id = "File:b.ts" -> "b.ts"
      [] id = "Function:a.ts:foo" -> "foo"
      [] id = "Function:b.ts:bar" -> "bar"
      [] id = "Community:comm_0" -> "comm_0"

\* The CodeRelation rows a run of the pipeline may have stored for it.
CandidateEdges ==
    {<<"Folder:src", "CONTAINS", "File:a.ts">>,
     <<"Folder:src", "CONTAINS", "File:b.ts">>,
     <<"File:a.ts", "DEFINES", "Function:a.ts:foo">>,
     <<"File:b.ts", "DEFINES", "Function:b.ts:bar">>,
     <<"File:b.ts", "IMPORTS", "File:a.ts">>,
     <<"Function:b.ts:bar", "CALLS", "Function:a.ts:foo">>,
     <<"Function:a.ts:foo", "CALLS", "Function:b.ts:bar">>,
     <<"Function:a.ts:foo", "MEMBER_OF", "Community:comm_0">>}

\* Names a caller asks about: every node's, and one no node has.
TargetNames == {NodeName(id) : id \in NodeIds} \cup {"nope"}

\* maxDepth of a call: <<>> for undefined, <<n>> for the number n.
NoDepth == <<>>
DepthArgs == {NoDepth} \cup {<<n>> : n \in (-1..MaxDepthArg) \cup {11}}

\* The sequences that list every element of S once: the orders in which the
\* store may return the rows S.
RECURSIVE Listings(_)
Listings(S) ==
    IF S = {} THEN {<<>>}
    ELSE UNION {{<<x>> \o s : s \in Listings(S \ {x})} : x \in S}

\* LIMIT n of a query with no ORDER BY: any n of the rows, all when fewer.
Limited(S, n) == {T \in SUBSET S : Cardinality(T) = Min(Cardinality(S), n)}

FindLimit == 5
QueryLimit == 100

\* MATCH (n) WHERE n.name = target RETURN n.id ... LIMIT 5
FindTargetRows(target) ==
    UNION {Listings(T) : T \in Limited({id \in NodeIds : NodeName(id) = target}, FindLimit)}

\* One hop from the nodes S: (affected)-[:CodeRelation]->(S) upstream,
\* (S)-[:CodeRelation]->(affected) downstream. The pattern names no type.
OneHop(g, S, direction) ==
    IF direction = "upstream"
    THEN {e[1] : e \in {x \in g : x[3] \in S}}
    ELSE {e[3] : e \in {x \in g : x[1] \in S}}

\* -[:CodeRelation*d]-: the ends of the paths of exactly d relationships.
RECURSIVE ExactHops(_, _, _, _)
ExactHops(g, S, direction, d) ==
    IF d = 0 THEN S ELSE ExactHops(g, OneHop(g, S, direction), direction, d - 1)

\* RETURN DISTINCT affected.id ... LIMIT 100 of the query for depth d
DepthRows(g, targetId, direction, d) ==
    UNION {Listings(T) : T \in Limited(ExactHops(g, {targetId}, direction, d), QueryLimit)}

\* ============================================================ blastRadius
DefaultDepth == 3
DepthCap == 10
MaxQueryDepth == 3

\* const depth = Math.min(maxDepth ?? 3, 10)
Depth(maxDepth) == Min(IF maxDepth = NoDepth THEN DefaultDepth ELSE maxDepth[1], DepthCap)

\* the values d takes in: for (let d = 1; d <= Math.min(depth, 3); d++)
LoopDepths(depth) == 1..Min(depth, MaxQueryDepth)

\* the body of results.forEach: a row whose id was seen already is dropped
AddRowUnchecked(acc, d, nodeId) ==
    [seenIds |-> acc.seenIds \cup {nodeId},
     byDepth |-> [acc.byDepth EXCEPT ![d] = Append(@, nodeId)],
     allNodeIds |-> Append(acc.allNodeIds, nodeId)]

AddRow(acc, d, nodeId) ==
    IF nodeId # "" /\ nodeId \notin acc.seenIds
    THEN [seenIds |-> acc.seenIds \cup {nodeId},
          byDepth |-> [acc.byDepth EXCEPT ![d] = Append(@, nodeId)],
          allNodeIds |-> Append(acc.allNodeIds, nodeId)]
    ELSE acc

RECURSIVE AddRows(_, _, _)
AddRows(acc, d, rows) ==
    IF rows = <<>> THEN acc
    ELSE AddRows(AddRow(acc, d, Head(rows)), d, Tail(rows))

\* depthResults.forEach((results, idx) => ...), from index idx on
RECURSIVE Combine(_, _, _)
Combine(acc, results, idx) ==
    IF idx > Len(results) THEN acc
    ELSE Combine(AddRows(acc, idx, results[idx]), results, idx + 1)

EmptyCombined ==
    [seenIds |-> {}, byDepth |-> [d \in 1..MaxQueryDepth |-> <<>>], allNodeIds |-> <<>>]

\* the return after the target lookup gave no row
NoTargetIsError(rows) == "error_finding_target"

NoTargetReturn(rows) == "not_found"

\* the return statement after the combination
FinalReturn(total) == IF total = 0 THEN "no_dependencies" ELSE "report"

\* No call has been made.
IdleBlast ==
    /\ brPc = "idle"
    /\ brArgs = [target |-> "nope", direction |-> "upstream", maxDepth |-> NoDepth]
    /\ targetResults = <<>>
    /\ depthQueries = <<>>
    /\ storeFailed = {}
    /\ depthResults = <<>>
    /\ byDepth = EmptyCombined.byDepth
    /\ allNodeIds = <<>>
    /\ totalAffected = 0
    /\ brReturn = "none"

\* The call, up to its first await: the target lookup is sent to the store.
\* The store is only read, so one call on each graph shows them all.
BlastRadius(target, direction, maxDepth) ==
    /\ brPc = "idle"
    /\ brPc' = "findTarget"
    /\ brArgs' = [target |-> target, direction |-> direction, maxDepth |-> maxDepth]
    /\ targetResults' = <<>>
    /\ depthQueries' = <<>>
    /\ storeFailed' = {}
    /\ depthResults' = <<>>
    /\ byDepth' = EmptyCombined.byDepth
    /\ allNodeIds' = <<>>
    /\ totalAffected' = 0
    /\ brReturn' = "none"
    /\ UNCHANGED graph

\* The target lookup rejects: the catch returns the error text.
FindTargetFails ==
    /\ brPc = "findTarget"
    /\ brPc' = "returned"
    /\ storeFailed' = {0}
    /\ brReturn' = "error_finding_target"
    /\ UNCHANGED <<graph, brArgs, targetResults, depthQueries, depthResults,
                   byDepth, allNodeIds, totalAffected>>

\* The target lookup resolves with rows: no row returns at once, otherwise
\* the loop pushes one query per depth and the call awaits them all.
FindTargetResolves(rows) ==
    /\ brPc = "findTarget"
    /\ rows \in FindTargetRows(brArgs.target)
    /\ targetResults' = rows
    /\ IF Len(rows) = 0
       THEN /\ brPc' = "returned"
            /\ brReturn' = NoTargetReturn(rows)
            /\ UNCHANGED depthQueries
       ELSE /\ brPc' = "depthQueries"
            /\ depthQueries' = [d \in LoopDepths(Depth(brArgs.maxDepth)) |-> d]
            /\ UNCHANGED brReturn
    /\ UNCHANGED <<graph, brArgs, storeFailed, depthResults, byDepth, allNodeIds,
                   totalAffected>>

\* The result lists the store may give for the queries that were pushed.
DepthOutcomes(failed) ==
    LET R(i) == IF depthQueries[i] \in failed THEN {<<>>}
                ELSE DepthRows(graph, targetResults[1], brArgs.direction, depthQueries[i])
    IN  CASE Len(depthQueries) = 0 -> {<<>>}
          [] Len(depthQueries) = 1 -> {<<a>> : a \in R(1)}
          [] Len(depthQueries) = 2 -> {<<a, b>> : a \in R(1), b \in R(2)}
          [] Len(depthQueries) = 3 -> {<<a, b, c>> : a \in R(1), b \in R(2), c \in R(3)}

\* Every depth query has settled, the ones in failed by rejecting (their
\* .catch gives []), the others with rows; the call combines and returns.
DepthQueriesSettle(failed, results) ==
    /\ brPc = "depthQueries"
    /\ failed \subseteq {depthQueries[i] : i \in 1..Len(depthQueries)}
    /\ Len(results) = Len(depthQueries)
    /\ \A i \in 1..Len(depthQueries) :
          results[i] \in IF depthQueries[i] \in failed THEN {<<>>}
                         ELSE DepthRows(graph, targetResults[1], brArgs.direction,
                                        depthQueries[i])
    /\ storeFailed' = failed
    /\ depthResults' = results
    /\ LET acc == Combine(EmptyCombined, results, 1)
       IN /\ byDepth' = acc.byDepth
          /\ allNodeIds' = acc.allNodeIds
          /\ totalAffected' = Len(acc.allNodeIds)
          /\ brReturn' = FinalReturn(Len(acc.allNodeIds))
    /\ brPc' = "returned"
    /\ UNCHANGED <<graph, brArgs, targetResults, depthQueries>>

\* The graph the pipeline left in the store; no tool call yet.
InitBlast == graph \in SUBSET CandidateEdges /\ IdleBlast

\* ================================================================= search
DefaultLimit == 10
ConnShown == 3

\* const k = limit ?? 10, limit 0 standing for undefined
TopK(limit) == IF limit = 0 THEN DefaultLimit ELSE limit

\* r.nodeId || r.id of the rows a ranking collaborator may return; "" for a
\* row that carries neither
HitIds == {"", "Function:a.ts:foo"}

Hits == UNION {[1..n -> HitIds] : n \in 0..MaxHits}

\* What the connections query of one result gives: it rejects, or its row has
\* so many named outgoing and incoming neighbours.
ConnOutcomes == {<<"failed", 0, 0>>} \cup
                {<<"row", o, i>> : o \in 0..MaxConn, i \in 0..MaxConn}

\* .filter(c => c && c.name).slice(0, 3), on the number of named neighbours
\* no slice: every named neighbour is listed
SliceAll(n) == n

Slice3(n) == Min(n, ConnShown)

\* The connections listed for one result whose query ended as q.
Shown(q) == IF q[1] = "failed" THEN <<0, 0>> ELSE <<Slice3(q[2]), Slice3(q[3])>>

\* The enrichments possible for the first n rows: one connections query per
\* row with an id, none for a row without.
RECURSIVE EnrichFirst(_, _)
EnrichFirst(rows, n) ==
    IF n = 0 THEN {<<>>}
    ELSE {Append(q, o) : q \in EnrichFirst(rows, n - 1),
                         o \in IF rows[n] = "" THEN {<<"none", 0, 0>>} ELSE ConnOutcomes}

\* for (let i = 0; i < Math.min(searchResults.length, k); i++)
Enrichments(rows, k) == EnrichFirst(rows, Min(Len(rows), k))

IdleSearch ==
    /\ searchPc = "idle"
    /\ searchLimit = 0
    /\ rankCalls = <<>>
    /\ rankFailed = {}
    /\ searchResults = <<>>
    /\ connRes = <<>>
    /\ connections = <<>>
    /\ searchReturn = "none"

\* The call, up to its first await or its early return.
SearchFirstSemantic(limit) ==
    /\ searchPc = "idle"
    /\ searchLimit' = limit
    /\ rankFailed' = {}
    /\ searchResults' = <<>>
    /\ connRes' = <<>>
    /\ connections' = <<>>
    /\ IF embeddingReady
       THEN /\ rankCalls' = <<"semantic">>
            /\ searchPc' = "semantic56"
            /\ searchReturn' = "none"
       ELSE IF bm25Ready
       THEN /\ rankCalls' = <<"hybrid">>
            /\ searchPc' = "hybrid"
            /\ searchReturn' = "none"
       ELSE /\ rankCalls' = <<>>
            /\ searchPc' = "idle"
            /\ searchReturn' = "unavailable"
    /\ UNCHANGED <<bm25Ready, embeddingReady>>

Search(limit) ==
    /\ searchPc = "idle"
    /\ searchLimit' = limit
    /\ rankFailed' = {}
    /\ searchResults' = <<>>
    /\ connRes' = <<>>
    /\ connections' = <<>>
    /\ IF bm25Ready
       THEN /\ rankCalls' = <<"hybrid">>
            /\ searchPc' = "hybrid"
            /\ searchReturn' = "none"
       ELSE IF embeddingReady
       THEN /\ rankCalls' = <<"semantic">>
            /\ searchPc' = "semantic56"
            /\ searchReturn' = "none"
       ELSE /\ rankCalls' = <<>>
            /\ searchPc' = "idle"
            /\ searchReturn' = "unavailable"
    /\ UNCHANGED <<bm25Ready, embeddingReady>>

\* From line 61 on, with searchResults = rows: the empty answer, or one
\* connections query per listed result and the listing.
SearchFinish(rows, q) ==
    /\ searchResults' = rows
    /\ searchPc' = "idle"
    /\ IF Len(rows) = 0
       THEN /\ searchReturn' = "no_code"
            /\ q = <<>>
            /\ connRes' = <<>>
            /\ connections' = <<>>
       ELSE /\ Len(q) = Min(Len(rows), TopK(searchLimit))
            /\ \A i \in 1..Len(q) :
                  q[i] \in IF rows[i] = "" THEN {<<"none", 0, 0>>} ELSE ConnOutcomes
            /\ connRes' = q
            /\ connections' = [i \in 1..Len(q) |-> Shown(q[i])]
            /\ searchReturn' = "found"

\* A ranking collaborator resolves with rows.
RankingResolves(rows, q) ==
    /\ searchPc \in {"hybrid", "semantic51", "semantic56"}
    /\ SearchFinish(rows, q)
    /\ UNCHANGED <<bm25Ready, embeddingReady, searchLimit, rankCalls, rankFailed>>

\* hybridSearch rejects: the catch falls back to semanticSearch when the
\* embeddings are ready and leaves searchResults empty otherwise.
HybridRejects ==
    /\ searchPc = "hybrid"
    /\ rankFailed' = rankFailed \cup {"hybrid"}
    /\ IF embeddingReady
       THEN /\ rankCalls' = Append(rankCalls, "semantic")
            /\ searchPc' = "semantic51"
            /\ UNCHANGED <<searchResults, connRes, connections, searchReturn>>
       ELSE /\ SearchFinish(<<>>, <<>>)
            /\ UNCHANGED rankCalls
    /\ UNCHANGED <<bm25Ready, embeddingReady, searchLimit>>

\* semanticSearch rejects, at line 51 or at line 56: nothing catches it, the
\* promise of the tool call rejects.
SemanticRejects ==
    /\ searchPc \in {"semantic51", "semantic56"}
    /\ rankFailed' = rankFailed \cup {"semantic"}
    /\ searchPc' = "idle"
    /\ searchReturn' = "thrown"
    /\ UNCHANGED <<bm25Ready, embeddingReady, searchLimit, rankCalls,
                   searchResults, connRes, connections>>

\* The application finishes building the lexical index, or the embeddings.
BM25Built ==
    /\ ~bm25Ready
    /\ bm25Ready' = TRUE
    /\ UNCHANGED embeddingReady

EmbeddingsBuilt ==
    /\ ~embeddingReady
    /\ embeddingReady' = TRUE
    /\ UNCHANGED bm25Ready

\* ================================================================= cypher
FormatLimit == 50

\* results.length of the queries a caller runs
RowCounts == {0, 1, FormatLimit + 1}

IdleCypher ==
    /\ cyPc = "idle"
    /\ cyArgs = [query |-> FALSE, vector |-> FALSE]
    /\ initCalls = <<>>
    /\ storeQueries = 0
    /\ cyRows = 0
    /\ cyReturn = "none"

\* The call, up to its first await or its early return. hasQuery: a query
\* text was given; hasVector: cypher.includes('{{QUERY_VECTOR}}').
Cypher(hasQuery, hasVector) ==
    /\ cyPc = "idle"
    /\ cyArgs' = [query |-> hasQuery, vector |-> hasVector]
    /\ cyRows' = 0
    /\ IF hasVector /\ ~hasQuery
       THEN /\ cyPc' = "idle"
            /\ cyReturn' = "missing_query"
            /\ initCalls' = <<>>
            /\ storeQueries' = 0
       ELSE IF hasVector /\ ~embeddingReady
       THEN /\ cyPc' = "init"
            /\ cyReturn' = "none"
            /\ initCalls' = <<"default">>
            /\ storeQueries' = 0
       ELSE IF hasVector
       THEN /\ cyPc' = "embed"
            /\ cyReturn' = "none"
            /\ initCalls' = <<>>
            /\ storeQueries' = 0
       ELSE /\ cyPc' = "execute"
            /\ cyReturn' = "none"
            /\ initCalls' = <<>>
            /\ storeQueries' = 1

\* await initEmbedder() settles: "ok", or it throws WebGPUNotAvailableError
\* ("webgpu": the catch retries with the wasm backend), or it throws another
\* error ("other": the catch returns the embeddings text).
InitEmbedderSettles(outcome) ==
    /\ cyPc = "init"
    /\ initCalls' = Append(initCalls, outcome)
    /\ IF outcome = "ok"
       THEN cyPc' = "embed" /\ UNCHANGED cyReturn
       ELSE IF outcome = "webgpu"
       THEN cyPc' = "initWasm" /\ UNCHANGED cyReturn
       ELSE cyPc' = "idle" /\ cyReturn' = "embeddings_not_available"
    /\ UNCHANGED <<cyArgs, storeQueries, cyRows>>

\* await initEmbedder(undefined, {}, 'wasm') settles; a throw leaves the
\* inner catch and lands in the outer one.
WasmInitSettles(ok) ==
    /\ cyPc = "initWasm"
    /\ initCalls' = Append(initCalls, IF ok THEN "wasm_ok" ELSE "wasm_failed")
    /\ IF ok
       THEN cyPc' = "embed" /\ UNCHANGED cyReturn
       ELSE cyPc' = "idle" /\ cyReturn' = "cypher_error"
    /\ UNCHANGED <<cyArgs, storeQueries, cyRows>>

\* await embedText(query) settles; then the query goes to the store.
EmbedTextSettles(ok) ==
    /\ cyPc = "embed"
    /\ IF ok
       THEN cyPc' = "execute" /\ storeQueries' = storeQueries + 1 /\ UNCHANGED cyReturn
       ELSE cyPc' = "idle" /\ cyReturn' = "cypher_error" /\ UNCHANGED storeQueries
    /\ UNCHANGED <<cyArgs, initCalls, cyRows>>

\* await executeQuery(finalCypher) rejects.
ExecuteQueryRejects ==
    /\ cyPc = "execute"
    /\ cyPc' = "idle"
    /\ cyReturn' = "cypher_error"
    /\ UNCHANGED <<cyArgs, initCalls, storeQueries, cyRows>>

\* await executeQuery(finalCypher) resolves with n rows.
ExecuteQueryResolves(n) ==
    /\ cyPc = "execute"
    /\ cyPc' = "idle"
    /\ cyRows' = n
    /\ cyReturn' = IF n = 0 THEN "no_results" ELSE "results"
    /\ UNCHANGED <<cyArgs, initCalls, storeQueries>>

\* ========================================================= walkRepository
READ_CONCURRENCY == 32

\* batch.length of filtered.slice(start, start + READ_CONCURRENCY)
BatchLen(n, from) == Min(READ_CONCURRENCY, n - from)

\* Promise.race in the place of Promise.allSettled: one settled read is enough
AnySettled(pending, settled) == settled > 0

\* Promise.allSettled(batch.map(...)) resolves: no read of the batch is pending
AllSettled(pending, settled) == pending = 0

IdleWalk ==
    /\ walkPc = "idle"
    /\ filteredLen = 0
    /\ start = 0
    /\ inFlight = 0
    /\ fulfilled = 0
    /\ rejected = 0
    /\ processed = 0
    /\ entriesLen = 0

\* The call, up to await glob(...).
WalkRepository ==
    /\ walkPc \in {"idle", "returned"}
    /\ walkPc' = "glob"
    /\ filteredLen' = 0
    /\ start' = 0
    /\ inFlight' = 0
    /\ fulfilled' = 0
    /\ rejected' = 0
    /\ processed' = 0
    /\ entriesLen' = 0

\* glob resolves and n files pass the ignore filter: the loop starts the reads
\* of the first batch, or the call returns when there is no file.
GlobResolves(n) ==
    /\ walkPc = "glob"
    /\ filteredLen' = n
    /\ IF 0 < n
       THEN walkPc' = "reading" /\ inFlight' = BatchLen(n, 0)
       ELSE walkPc' = "returned" /\ inFlight' = 0
    /\ UNCHANGED <<start, fulfilled, rejected, processed, entriesLen>>

\* One read of the batch settles, with the content or with an error.
ReadSettles(ok) ==
    /\ walkPc = "reading"
    /\ inFlight > 0
    /\ inFlight' = inFlight - 1
    /\ IF ok
       THEN fulfilled' = fulfilled + 1 /\ UNCHANGED rejected
       ELSE rejected' = rejected + 1 /\ UNCHANGED fulfilled
    /\ UNCHANGED <<walkPc, filteredLen, start, processed, entriesLen>>

\* The await of line 29 returns: the results are counted and pushed, and the
\* loop goes on to the next batch, or the call returns entries.
BatchDone ==
    /\ walkPc = "reading"
    /\ AllSettled(inFlight, fulfilled + rejected)
    /\ processed' = processed + fulfilled + rejected
    /\ entriesLen' = entriesLen + fulfilled
    /\ start' = start + READ_CONCURRENCY
    /\ fulfilled' = 0
    /\ rejected' = 0
    /\ IF start + READ_CONCURRENCY < filteredLen
       THEN /\ walkPc' = "reading"
            /\ inFlight' = inFlight + BatchLen(filteredLen, start + READ_CONCURRENCY)
       ELSE /\ walkPc' = "returned"
            /\ inFlight' = inFlight
    /\ UNCHANGED filteredLen

\* ==================================================== streamAgentResponse
\* tc.id of a tool call, msg.tool_call_id of a tool message: 0 when missing
ToolIds == 1..MaxToolIds

\* what `tool-${Date.now()}-...` may evaluate to: two evaluations agree or differ
GeneratedIds == {0 - 1, 0 - 2}

\* msg.tool_calls: no, one or two tool calls. bad: tc.args is missing and
\* tc.function.arguments is not JSON, so JSON.parse of line 686 throws.
ToolCall == [id : {0} \cup ToolIds, bad : BOOLEAN]
ToolCallLists == {<<>>} \cup {<<a>> : a \in ToolCall} \cup {<<a, b>> : a \in ToolCall, b \in ToolCall}

\* the messages an event can carry
AiMessages == [type : {"ai"}, content : BOOLEAN, tool_calls : ToolCallLists, tool_call_id : {0}]
ToolMessages == [type : {"tool"}, content : {FALSE}, tool_calls : {<<>>},
                 tool_call_id : {0} \cup ToolIds]
OtherMessage == [type |-> "human", content |-> FALSE, tool_calls |-> <<>>, tool_call_id |-> 0]
Messages == AiMessages \cup ToolMessages \cup {OtherMessage}

\* the messages of a state snapshot: the values branch reads no arguments
SnapshotMessages == {m \in Messages : ~m.content /\ \A i \in DOMAIN m.tool_calls : ~m.tool_calls[i].bad}
NewMessages == {<<>>} \cup {<<a>> : a \in SnapshotMessages}

\* the ids made up for the tool calls of one message, by position; a position
\* whose tool call has an id, in every message of msgs, makes up none
GenChoices(msgs) ==
    {g \in [1..2 -> GeneratedIds] :
        \A i \in 1..2 :
            (\A k \in DOMAIN msgs :
                i > Len(msgs[k].tool_calls) \/ msgs[k].tool_calls[i].id # 0)
            => g[i] = 0 - 1}

Chunk(type, id) == [type |-> type, id |-> id]

\* the locals of the generator
Locals ==
    [chunks |-> saChunks, calls |-> yieldedToolCalls, results |-> yieldedToolResults,
     allDone |-> allToolsDone, seen |-> hasSeenToolCallThisTurn, thrown |-> FALSE]

\* the body of `for (const tc of toolCalls)`, lines 677-691 and 729-744;
\* parses: the branch evaluates JSON.parse for its chunk
YieldToolCallAgain(st, tc, gen, parses) ==
    LET toolId == IF tc.id = 0 THEN gen ELSE tc.id
    IN  IF parses /\ tc.bad
        THEN [st EXCEPT !.calls = @ \cup {toolId}, !.thrown = TRUE]
        ELSE [st EXCEPT !.calls = @ \cup {toolId},
                        !.allDone = IF parses THEN @ ELSE FALSE,
                        !.chunks = Append(@, Chunk("tool_call", toolId))]

YieldToolCall(st, tc, gen, parses) ==
    LET toolId == IF tc.id = 0 THEN gen ELSE tc.id
    IN  IF toolId \in st.calls THEN st
        ELSE IF parses /\ tc.bad
        THEN [st EXCEPT !.calls = @ \cup {toolId}, !.thrown = TRUE]
        ELSE [st EXCEPT !.calls = @ \cup {toolId},
                        !.allDone = IF parses THEN @ ELSE FALSE,
                        !.chunks = Append(@, Chunk("tool_call", toolId))]

RECURSIVE YieldToolCalls(_, _, _, _, _)
YieldToolCalls(st, tcs, gens, i, parses) ==
    IF i > Len(tcs) \/ st.thrown THEN st
    ELSE YieldToolCalls(YieldToolCall(st, tcs[i], gens[i], parses), tcs, gens, i + 1, parses)

\* lines 696-714 and 748-765
YieldToolResult(st, msg) ==
    IF msg.tool_call_id # 0 /\ msg.tool_call_id \notin st.results
    THEN [st EXCEPT !.results = @ \cup {msg.tool_call_id},
                    !.chunks = Append(@, Chunk("tool_result", msg.tool_call_id)),
                    !.allDone = TRUE]
    ELSE st

\* lines 646-715: one event of mode 'messages'
OnMessage(st, msg, gens) ==
    IF msg.type = "ai"
    THEN LET isReasoning == ~st.seen \/ Len(msg.tool_calls) > 0 \/ ~st.allDone
             st1 == IF msg.content
                    THEN [st EXCEPT !.chunks = Append(@,
                              Chunk(IF isReasoning THEN "reasoning" ELSE "content", 0))]
                    ELSE st
         IN  IF Len(msg.tool_calls) > 0
             THEN YieldToolCalls([st1 EXCEPT !.seen = TRUE, !.allDone = FALSE],
                                 msg.tool_calls, gens, 1, TRUE)
             ELSE st1
    ELSE IF msg.type = "tool" THEN YieldToolResult(st, msg)
    ELSE st

\* lines 722-766: the loop over the new messages of a snapshot
RECURSIVE OnSnapshot(_, _, _, _)
OnSnapshot(st, msgs, gens, i) ==
    IF i > Len(msgs) THEN st
    ELSE LET msg == msgs[i]
             st1 == IF msg.type = "ai" /\ st.calls = {}
                    THEN YieldToolCalls(st, msg.tool_calls, gens, 1, FALSE)
                    ELSE IF msg.type = "tool" THEN YieldToolResult(st, msg)
                    ELSE st
         IN  OnSnapshot(st1, msgs, gens, i + 1)

\* the tool ids the messages msgs of an event of the given mode carry
Delivered(mode, msgs) ==
    UNION {{<<mode, "call", msgs[k].tool_calls[i].id>> : i \in DOMAIN msgs[k].tool_calls}
             \cup {<<mode, "result", msgs[k].tool_call_id>>} : k \in DOMAIN msgs}

\* the generator goes on after the event, or its catch yields 'error' and it ends
AfterEvent(st) ==
    /\ yieldedToolCalls' = st.calls
    /\ yieldedToolResults' = st.results
    /\ allToolsDone' = st.allDone
    /\ hasSeenToolCallThisTurn' = st.seen
    /\ saEvents' = saEvents + 1
    /\ IF st.thrown
       THEN /\ saChunks' = Append(st.chunks, Chunk("error", 0))
            /\ saPc' = "ended"
            /\ saOutcome' = "threw"
       ELSE /\ saChunks' = st.chunks
            /\ UNCHANGED <<saPc, saOutcome>>

\* No run has been started.
IdleAgent ==
    /\ saPc = "idle"
    /\ saChunks = <<>>
    /\ yieldedToolCalls = {}
    /\ yieldedToolResults = {}
    /\ lastProcessedMsgCount = 0
    /\ allToolsDone = TRUE
    /\ hasSeenToolCallThisTurn = FALSE
    /\ saEvents = 0
    /\ saDelivered = {}
    /\ saOutcome = "none"

\* streamAgentResponse(agent, messages) and the first next(): up to the await
\* of agent.stream
StreamAgentResponse ==
    /\ saPc = "idle"
    /\ saPc' = "awaitStream"
    /\ UNCHANGED <<saChunks, yieldedToolCalls, yieldedToolResults, lastProcessedMsgCount,
                   allToolsDone, hasSeenToolCallThisTurn, saEvents, saDelivered, saOutcome>>

\* agent.stream resolves; lines 616-624 set the locals
AgentStreamResolves ==
    /\ saPc = "awaitStream"
    /\ saPc' = "streaming"
    /\ UNCHANGED <<saChunks, yieldedToolCalls, yieldedToolResults, lastProcessedMsgCount,
                   allToolsDone, hasSeenToolCallThisTurn, saEvents, saDelivered, saOutcome>>

\* agent.stream rejects, or the iteration of the stream throws: the catch
StreamThrows ==
    /\ saPc \in {"awaitStream", "streaming"}
    /\ saChunks' = Append(saChunks, Chunk("error", 0))
    /\ saPc' = "ended"
    /\ saOutcome' = "threw"
    /\ UNCHANGED <<yieldedToolCalls, yieldedToolResults, lastProcessedMsgCount,
                   allToolsDone, hasSeenToolCallThisTurn, saEvents, saDelivered>>

\* the stream delivers ['messages', [msg, metadata]]
MessagesEvent(msg, gens) ==
    /\ saPc = "streaming"
    /\ saEvents < MaxEvents
    /\ AfterEvent(OnMessage(Locals, msg, gens))
    /\ saDelivered' = saDelivered \cup Delivered("messages", <<msg>>)
    /\ UNCHANGED lastProcessedMsgCount

\* the stream delivers ['values', { messages }] with the messages msgs after
\* the ones processed before: a snapshot per message the agent adds, or one
\* that adds none
ValuesEvent(msgs, gens) ==
    /\ saPc = "streaming"
    /\ saEvents < MaxEvents
    /\ AfterEvent(OnSnapshot(Locals, msgs, gens, 1))
    /\ saDelivered' = saDelivered \cup Delivered("values", msgs)
    /\ lastProcessedMsgCount' = lastProcessedMsgCount + Len(msgs)

\* line 772 without the end of the generator after it
StreamCompletesAndGoesOn ==
    /\ saPc = "streaming"
    /\ saOutcome = "none"
    /\ saChunks' = Append(saChunks, Chunk("done", 0))
    /\ saOutcome' = "completed"
    /\ UNCHANGED <<saPc, yieldedToolCalls, yieldedToolResults, lastProcessedMsgCount,
                   allToolsDone, hasSeenToolCallThisTurn, saEvents, saDelivered>>

\* the stream is exhausted: line 772
StreamCompletes ==
    /\ saPc = "streaming"
    /\ saChunks' = Append(saChunks, Chunk("done", 0))
    /\ saPc' = "ended"
    /\ saOutcome' = "completed"
    /\ UNCHANGED <<yieldedToolCalls, yieldedToolResults, lastProcessedMsgCount,
                   allToolsDone, hasSeenToolCallThisTurn, saEvents, saDelivered>>

\* ====================================== the tools and the walker, one each
IdleTools == graph = {} /\ IdleBlast /\ bm25Ready = FALSE /\ embeddingReady = FALSE
             /\ IdleSearch /\ IdleCypher /\ IdleWalk

\* No WebSocketBridge is started, no DaemonClient has disconnected, no agent
\* response is streamed.
IdlePeers == NewBridge(FALSE) /\ NoOldSocks /\ IdleAgent

\* No pool and no daemon is in use.
NoPoolNoDaemon ==
    /\ FreshPool(1)
    /\ dispatches = <<>>
    /\ callsLeft = 0
    /\ InitDaemon
    /\ IdlePeers

\* ---- blastRadius on the graph of one repository
InitImpact ==
    /\ NoPoolNoDaemon
    /\ InitBlast
    /\ bm25Ready = FALSE /\ embeddingReady = FALSE
    /\ IdleSearch /\ IdleCypher /\ IdleWalk

nonBlastVars == <<poolVars, daemonVars, flagVars, searchVars, cypherVars, walkVars,
                   peerVars>>

NextImpact ==
    \/ \E target \in TargetNames, direction \in {"upstream", "downstream"},
          maxDepth \in DepthArgs :
          BlastRadius(target, direction, maxDepth) /\ UNCHANGED nonBlastVars
    \/ FindTargetFails /\ UNCHANGED nonBlastVars
    \/ /\ brPc = "findTarget"
       /\ \E rows \in FindTargetRows(brArgs.target) :
             FindTargetResolves(rows) /\ UNCHANGED nonBlastVars
    \/ /\ brPc = "depthQueries"
       /\ \E failed \in SUBSET (1..MaxQueryDepth) : \E results \in DepthOutcomes(failed) :
             DepthQueriesSettle(failed, results) /\ UNCHANGED nonBlastVars

SpecImpact == InitImpact /\ [][NextImpact]_vars

\* ---- search while the indexes are being built
InitSearch ==
    /\ NoPoolNoDaemon
    /\ graph = {} /\ IdleBlast
    /\ bm25Ready \in BOOLEAN /\ embeddingReady \in BOOLEAN
    /\ IdleSearch /\ IdleCypher /\ IdleWalk

nonSearchVars == <<poolVars, daemonVars, blastVars, cypherVars, walkVars, peerVars>>

NextSearch ==
    \/ \E limit \in 0..MaxHits : Search(limit) /\ UNCHANGED nonSearchVars
    \/ /\ searchPc # "idle"
       /\ \E rows \in Hits : \E q \in Enrichments(rows, TopK(searchLimit)) \cup {<<>>} :
             RankingResolves(rows, q) /\ UNCHANGED nonSearchVars
    \/ HybridRejects /\ UNCHANGED nonSearchVars
    \/ SemanticRejects /\ UNCHANGED nonSearchVars
    \/ BM25Built /\ UNCHANGED <<searchVars, nonSearchVars>>
    \/ EmbeddingsBuilt /\ UNCHANGED <<searchVars, nonSearchVars>>

SpecSearch == InitSearch /\ [][NextSearch]_vars

\* ---- cypher while the embeddings are being built
nonCypherVars == <<poolVars, daemonVars, blastVars, bm25Ready, searchVars, walkVars,
                    peerVars>>

NextCypher ==
    \/ \E hasQuery \in BOOLEAN, hasVector \in BOOLEAN :
          Cypher(hasQuery, hasVector) /\ UNCHANGED <<embeddingReady, nonCypherVars>>
    \/ \E outcome \in {"ok", "webgpu", "other"} :
          InitEmbedderSettles(outcome) /\ UNCHANGED <<embeddingReady, nonCypherVars>>
    \/ \E ok \in BOOLEAN : WasmInitSettles(ok) /\ UNCHANGED <<embeddingReady, nonCypherVars>>
    \/ \E ok \in BOOLEAN : EmbedTextSettles(ok) /\ UNCHANGED <<embeddingReady, nonCypherVars>>
    \/ ExecuteQueryRejects /\ UNCHANGED <<embeddingReady, nonCypherVars>>
    \/ \E n \in RowCounts : ExecuteQueryResolves(n) /\ UNCHANGED <<embeddingReady, nonCypherVars>>
    \/ EmbeddingsBuilt /\ UNCHANGED <<cypherVars, nonCypherVars>>

SpecCypher == InitSearch /\ [][NextCypher]_vars

\* ---- walkRepository
nonWalkVars == <<poolVars, daemonVars, blastVars, flagVars, searchVars, cypherVars,
                  peerVars>>

NextWalk ==
    \/ WalkRepository /\ UNCHANGED nonWalkVars
    \/ \E n \in 0..MaxFiles : GlobResolves(n) /\ UNCHANGED nonWalkVars
    \/ \E ok \in BOOLEAN : ReadSettles(ok) /\ UNCHANGED nonWalkVars
    \/ BatchDone /\ UNCHANGED nonWalkVars

InitWalk == NoPoolNoDaemon /\ IdleTools

SpecWalk == InitWalk /\ [][NextWalk]_vars

\* ---- one run of streamAgentResponse over any agent stream
nonAgentVars == <<poolVars, daemonVars, toolVars, bridgeVars, oldSocks>>

NextAgent ==
    \/ StreamAgentResponse /\ UNCHANGED nonAgentVars
    \/ AgentStreamResolves /\ UNCHANGED nonAgentVars
    \/ StreamThrows /\ UNCHANGED nonAgentVars
    \/ /\ saPc = "streaming"
       /\ \E msg \in Messages : \E gens \in GenChoices(<<msg>>) :
             MessagesEvent(msg, gens) /\ UNCHANGED nonAgentVars
    \/ /\ saPc = "streaming"
       /\ \E msgs \in NewMessages : \E gens \in GenChoices(msgs) :
             ValuesEvent(msgs, gens) /\ UNCHANGED nonAgentVars
    \/ StreamCompletes /\ UNCHANGED nonAgentVars

\* Nothing else is in use.
InitAgent == NoPoolNoDaemon /\ IdleTools

SpecAgent == InitAgent /\ [][NextAgent]_vars

\* ------------------------------------------------------ the worker pool
Init == InitPool /\ InitDaemon /\ IdlePeers /\ IdleTools

\* --------------------------------------------------------------- dispatch
\* The closure of one dispatch call and the promise it returns.
NewDispatch(items, cb, chunks) ==
    Settle([items |-> items,
            poolSize |-> size,
            calledWhen |-> termState,
            chunks |-> chunks,
            onProgress |-> cb,
            workerProgress |-> [i \in 1..Len(chunks) |-> 0],
            \* workers[i] is undefined once terminate() has emptied the array:
            \* worker.on throws in the executor and the promise is rejected
            promise |-> [i \in 1..Len(chunks) |->
                            IF i <= workersLen THEN "pending" ELSE "rejected"],
            values |-> [i \in 1..Len(chunks) |-> <<>>],
            order |-> <<>>,
            state |-> "pending",
            result |-> <<>>,
            lastTotal |-> -1,
            progressCalls |-> 0])

\* dispatch(items, onProgress)
Dispatch(items, cb) ==
    LET d == Len(dispatches) + 1
        chunks == DispatchChunks(items, size)
        \* the workers that get a listener and a chunk
        on == {i \in 1..Len(chunks) : i <= workersLen}
    IN  /\ callsLeft > 0
        /\ callsLeft' = callsLeft - 1
        /\ dispatches' = Append(dispatches, NewDispatch(items, cb, chunks))
        /\ msgListeners' = [w \in 1..size |->
                IF w \in on THEN msgListeners[w] \cup {d} ELSE msgListeners[w]]
        /\ errListeners' = [w \in 1..size |->
                IF w \in on THEN errListeners[w] \cup {d} ELSE errListeners[w]]
        /\ installed' = [w \in 1..size |->
                IF w \in on THEN installed[w] \cup {d} ELSE installed[w]]
        /\ posted' = [w \in 1..size |->
                IF w \in on THEN Append(posted[w], [d |-> d, chunk |-> chunks[w]])
                ELSE posted[w]]
        \* a terminated thread drops what is posted to it
        /\ inbox' = [w \in 1..size |->
                IF w \in on /\ alive[w]
                THEN Append(inbox[w], [d |-> d, chunk |-> chunks[w]])
                ELSE inbox[w]]
        /\ UNCHANGED <<size, workersLen, alive, termState, finalSent, errorSent,
                       progressMsgs>>

\* ----------------------------------------------------------------- worker
Busy(w) == alive[w] /\ inbox[w] # <<>>

\* The 'message' event of worker w: every listener on it runs.
Deliver(w, msg) ==
    /\ dispatches' = [d \in DOMAIN dispatches |->
            IF d \in msgListeners[w] THEN Handler(dispatches[d], w, msg)
            ELSE dispatches[d]]
    \* worker.removeListener('message', handler) in the result branches
    /\ msgListeners' = [msgListeners EXCEPT ![w] = IF IsProgress(msg) THEN @ ELSE {}]

\* parentPort.postMessage({ type: 'progress', filesProcessed: n })
WorkerProgress(w, n) ==
    /\ Busy(w)
    /\ progressMsgs < MaxProgress
    /\ n \in 0..Len(Head(inbox[w]).chunk)
    /\ progressMsgs' = progressMsgs + 1
    /\ Deliver(w, ProgressMsg(n))
    /\ UNCHANGED <<size, workersLen, alive, inbox, errListeners, termState,
                   callsLeft, posted, installed, finalSent, errorSent>>

\* The worker finished its chunk: its final message, typed or legacy.
WorkerFinal(w, typed) ==
    /\ Busy(w)
    /\ LET job == Head(inbox[w])
           v == WorkerResult(job.chunk)
       IN  /\ Deliver(w, IF typed THEN ResultMsg(v) ELSE LegacyMsg(v))
           /\ finalSent' = finalSent \cup {<<job.d, w>>}
    /\ inbox' = [inbox EXCEPT ![w] = Tail(@)]
    /\ UNCHANGED <<size, workersLen, alive, errListeners, termState,
                   callsLeft, posted, installed, errorSent, progressMsgs>>

\* An uncaught exception in worker w: the 'error' event, and the thread ends.
WorkerError(w) ==
    /\ Busy(w)
    /\ dispatches' = [d \in DOMAIN dispatches |->
            IF d \in errListeners[w] THEN RejectChunk(dispatches[d], w)
            ELSE dispatches[d]]
    /\ msgListeners' = [msgListeners EXCEPT ![w] = @ \ errListeners[w]]
    /\ errListeners' = [errListeners EXCEPT ![w] = {}]
    /\ alive' = [alive EXCEPT ![w] = FALSE]
    /\ inbox' = [inbox EXCEPT ![w] = <<>>]
    /\ errorSent' = errorSent \cup {<<inbox[w][k].d, w>> : k \in DOMAIN inbox[w]}
    /\ UNCHANGED <<size, workersLen, termState, callsLeft, posted, installed,
                   finalSent, progressMsgs>>

\* -------------------------------------------------------------- terminate
\* terminate(): workers.map(w => w.terminate()), then the await
TerminateCall ==
    /\ termState = "none"
    /\ termState' = "awaiting"
    /\ UNCHANGED <<size, workersLen, alive, inbox, msgListeners, errListeners,
                   dispatches, callsLeft, posted, installed, finalSent, errorSent,
                   progressMsgs>>

\* worker.terminate() takes effect: the thread stops, no event but 'exit'
WorkerExit(w) ==
    /\ termState = "awaiting"
    /\ alive[w]
    /\ alive' = [alive EXCEPT ![w] = FALSE]
    /\ inbox' = [inbox EXCEPT ![w] = <<>>]
    /\ UNCHANGED <<size, workersLen, msgListeners, errListeners, termState,
                   dispatches, callsLeft, posted, installed, finalSent, errorSent,
                   progressMsgs>>

\* every worker.terminate() promise resolved: workers.length = 0
TerminateDone ==
    /\ termState = "awaiting"
    /\ \A w \in 1..size : ~alive[w]
    /\ termState' = "done"
    /\ workersLen' = 0
    /\ UNCHANGED <<size, alive, inbox, msgListeners, errListeners, dispatches,
                   callsLeft, posted, installed, finalSent, errorSent, progressMsgs>>

\* ------------------------------------------------------------------- Next
Next ==
    \/ \E items \in Inputs, cb \in BOOLEAN : Dispatch(items, cb) /\ UNCHANGED nonPoolVars
    \/ \E w \in 1..size, n \in 0..MaxLen : WorkerProgress(w, n) /\ UNCHANGED nonPoolVars
    \/ \E w \in 1..size, typed \in BOOLEAN : WorkerFinal(w, typed) /\ UNCHANGED nonPoolVars
    \/ \E w \in 1..size : WorkerError(w) /\ UNCHANGED nonPoolVars
    \/ TerminateCall /\ UNCHANGED nonPoolVars
    \/ \E w \in 1..size : WorkerExit(w) /\ UNCHANGED nonPoolVars
    \/ TerminateDone /\ UNCHANGED nonPoolVars

Spec == Init /\ [][Next]_vars

Resolved(d) == dispatches[d].state = "resolved"
NonEmpty(d) == dispatches[d].items # <<>>

\* ------------------------------------------------- a second pool, size 4
\* The caller is done with its pool, has terminated it, and calls
\* createWorkerPool(workerUrl, P) for the next one.
CreatePool(P) ==
    /\ termState = "done"
    /\ size # P
    /\ size' = P
    /\ workersLen' = P
    /\ alive' = [w \in 1..P |-> TRUE]
    /\ inbox' = [w \in 1..P |-> <<>>]
    /\ msgListeners' = [w \in 1..P |-> {}]
    /\ errListeners' = [w \in 1..P |-> {}]
    /\ termState' = "none"
    /\ posted' = [w \in 1..P |-> <<>>]
    /\ installed' = [w \in 1..P |-> {}]
    /\ progressMsgs' = 0
    /\ UNCHANGED <<dispatches, callsLeft, finalSent, errorSent>>

\* A pool of size 1, then a pool of size 4, one dispatch on each.
InitEquiv ==
    /\ FreshPool(1)
    /\ dispatches = <<>>
    /\ callsLeft = 2
    /\ InitDaemon
    /\ IdlePeers
    /\ IdleTools

\* The same input goes to both pools; the workers' progress messages are left
\* out, they do not touch the result.
NextEquiv ==
    \/ \E items \in Inputs :
          dispatches = <<>> /\ Dispatch(items, FALSE) /\ UNCHANGED nonPoolVars
    \/ /\ Len(dispatches) = 1
       /\ size = 4
       /\ Dispatch(dispatches[1].items, FALSE)
       /\ UNCHANGED nonPoolVars
    \/ \E w \in 1..size, typed \in BOOLEAN : WorkerFinal(w, typed) /\ UNCHANGED nonPoolVars
    \/ \E w \in 1..size : WorkerError(w) /\ UNCHANGED nonPoolVars
    \/ TerminateCall /\ UNCHANGED nonPoolVars
    \/ \E w \in 1..size : WorkerExit(w) /\ UNCHANGED nonPoolVars
    \/ TerminateDone /\ UNCHANGED nonPoolVars
    \/ Len(dispatches) = 1 /\ Resolved(1) /\ CreatePool(4) /\ UNCHANGED nonPoolVars

\* ------------------------------------------------- the daemon and its peers
\* No pool is in use: a pool of one idle worker that is never dispatched on.
InitDaemonSpec ==
    /\ FreshPool(1)
    /\ dispatches = <<>>
    /\ callsLeft = 0
    /\ InitDaemon
    /\ IdlePeers
    /\ IdleTools

NextDaemon ==
    \/ \E b \in 1..MaxBrowsers : BrowserConnect(b) /\ UNCHANGED nonDaemonVars
    \/ \E b \in 1..MaxBrowsers : BrowserContext(b) /\ UNCHANGED nonDaemonVars
    \/ \E r \in atBrowser, err \in BOOLEAN : BrowserRespond(r, err) /\ UNCHANGED nonDaemonVars
    \/ \E b \in 1..MaxBrowsers : BrowserClose(b) /\ UNCHANGED nonDaemonVars
    \/ \E c \in 1..NumClients : McpConnect(c) /\ UNCHANGED nonDaemonVars
    \/ \E c \in 1..NumClients, method \in {"tool", "getContext"} :
          CallTool(c, method) /\ UNCHANGED nonDaemonVars
    \/ \E c \in 1..NumClients, id \in 1..MaxReq : CallTimeout(c, id) /\ UNCHANGED nonDaemonVars
    \/ \E c \in 1..NumClients : McpClose(c) /\ UNCHANGED nonDaemonVars

SpecDaemon == InitDaemonSpec /\ [][NextDaemon]_vars

\* ---- port 54319 is held by the daemon or by a WebSocketBridge
\* start() of the bridge returns false when the daemon has the port, so
\* either the bridge is started and serves the browsers, or the daemon does.
InitPeers ==
    /\ FreshPool(1)
    /\ dispatches = <<>>
    /\ callsLeft = 0
    /\ InitDaemon
    /\ IdleTools
    /\ NoOldSocks
    /\ IdleAgent
    /\ \E started \in BOOLEAN : NewBridge(started)

NextBridge ==
    \/ \E b \in 1..MaxBrowsers : WbConnect(b) /\ UNCHANGED nonBridgeVars
    \/ \E b \in 1..MaxBrowsers : WbClose(b) /\ UNCHANGED nonBridgeVars
    \/ WbCallTool /\ UNCHANGED nonBridgeVars
    \/ \E r \in wbAtBrowser, err \in BOOLEAN : WbHandleMessage(r, err) /\ UNCHANGED nonBridgeVars
    \/ \E id \in 1..MaxReq : WbTimeout(id) /\ UNCHANGED nonBridgeVars

\* the tool calls of the MCP clients through the daemon, or those of the bridge
NextCalls ==
    \/ \E b \in 1..MaxBrowsers :
          ~wbStarted /\ BrowserConnect(b) /\ UNCHANGED nonDaemonVars
    \/ \E r \in atBrowser, err \in BOOLEAN :
          ~wbStarted /\ BrowserRespond(r, err) /\ UNCHANGED nonDaemonVars
    \/ \E b \in 1..MaxBrowsers :
          ~wbStarted /\ BrowserClose(b) /\ UNCHANGED nonDaemonVars
    \/ \E c \in 1..NumClients :
          ~wbStarted /\ McpConnect(c) /\ UNCHANGED nonDaemonVars
    \/ \E c \in 1..NumClients :
          ~wbStarted /\ CallTool(c, "tool") /\ UNCHANGED nonDaemonVars
    \/ \E c \in 1..NumClients, id \in 1..MaxReq :
          ~wbStarted /\ CallTimeout(c, id) /\ UNCHANGED nonDaemonVars
    \/ \E c \in 1..NumClients :
          ~wbStarted /\ McpClose(c) /\ UNCHANGED nonDaemonVars
    \/ NextBridge

SpecCalls == InitPeers /\ [][NextCalls]_vars

\* the browser connections of the daemon and its contexts, or the bridge
NextConn ==
    \/ \E b \in 1..MaxBrowsers :
          ~wbStarted /\ BrowserConnect(b) /\ UNCHANGED nonDaemonVars
    \/ \E b \in 1..MaxBrowsers :
          ~wbStarted /\ BrowserContext(b) /\ UNCHANGED nonDaemonVars
    \/ \E b \in 1..MaxBrowsers :
          ~wbStarted /\ BrowserClose(b) /\ UNCHANGED nonDaemonVars
    \/ \E c \in 1..NumClients :
          ~wbStarted /\ McpConnect(c) /\ UNCHANGED nonDaemonVars
    \/ \E c \in 1..NumClients :
          ~wbStarted /\ McpClose(c) /\ UNCHANGED nonDaemonVars
    \/ NextBridge

SpecConn == InitPeers /\ [][NextConn]_vars

\* ---- a DaemonClient that disconnects and connects again
nonClientVars == <<poolVars, toolVars, bridgeVars, agentVars>>

NextReconnect ==
    \/ \E b \in 1..MaxBrowsers : BrowserConnect(b) /\ UNCHANGED nonDaemonVars
    \/ \E b \in 1..MaxBrowsers : BrowserContext(b) /\ UNCHANGED nonDaemonVars
    \/ \E r \in atBrowser, err \in BOOLEAN : BrowserRespond(r, err) /\ UNCHANGED nonDaemonVars
    \/ \E c \in 1..NumClients : McpConnect(c) /\ UNCHANGED nonDaemonVars
    \/ \E c \in 1..NumClients : CallTool(c, "tool") /\ UNCHANGED nonDaemonVars
    \/ \E c \in 1..NumClients : Disconnect(c) /\ UNCHANGED nonClientVars
    \/ \E c \in 1..NumClients : OldSocketClose(c) /\ UNCHANGED nonClientVars

SpecReconnect == InitDaemonSpec /\ [][NextReconnect]_vars

SpecEquiv == InitEquiv /\ [][NextEquiv]_vars

\* ------------------------------------------- two dispatches on one pool
\* The caller dispatches twice on its pool, the second time at any moment:
\* while the first dispatch runs, after it resolved, or after it failed.
\* Progress messages and terminate() are left out.
InitSeq ==
    /\ \E P \in 1..MaxPool : FreshPool(P)
    /\ dispatches = <<>>
    /\ callsLeft = 2
    /\ InitDaemon
    /\ IdlePeers
    /\ IdleTools

NextSeq ==
    \/ \E items \in Inputs : Dispatch(items, FALSE) /\ UNCHANGED nonPoolVars
    \/ \E w \in 1..size, typed \in BOOLEAN : WorkerFinal(w, typed) /\ UNCHANGED nonPoolVars
    \/ \E w \in 1..size : WorkerError(w) /\ UNCHANGED nonPoolVars

SpecSeq == InitSeq /\ [][NextSeq]_vars

\* ========================================================== worker pool
\* Slice i of the partition of items into slices of Math.ceil(N / P) items.
PartitionChunk(items, P, i) ==
    SubSeq(items, (i - 1) * Ceil(Len(items), P) + 1,
           Min(i * Ceil(Len(items), P), Len(items)))

\* C1: a dispatch on a non-empty input resolves to an array that holds at
\* index i the final result of chunk i, whatever order the workers finished in.
C1_ResultsInChunkOrder ==
    \A d \in DOMAIN dispatches :
        (Resolved(d) /\ NonEmpty(d)) =>
            /\ Len(dispatches[d].result) = Len(dispatches[d].chunks)
            /\ \A i \in DOMAIN dispatches[d].chunks :
                   dispatches[d].result[i] = WorkerResult(dispatches[d].chunks[i])

\* a resolved dispatch whose last chunk finished first
C1_Witness ==
    \E d \in DOMAIN dispatches :
        /\ Resolved(d)
        /\ Len(dispatches[d].chunks) >= 2
        /\ dispatches[d].order[1] = Len(dispatches[d].chunks)

\* C2: when a worker emits an error while it holds a chunk of a dispatch, the
\* dispatch promise is rejected and carries no result, not even of the chunks
\* that had completed.
C2_WorkerErrorRejectsDispatch ==
    \A d \in DOMAIN dispatches :
        (\E w \in 1..size : <<d, w>> \in errorSent) =>
            /\ dispatches[d].state = "rejected"
            /\ dispatches[d].result = <<>>

\* a worker failed after another chunk of the dispatch had completed
C2_Witness ==
    \E d \in DOMAIN dispatches :
        /\ \E w \in 1..size : <<d, w>> \in errorSent
        /\ \E i \in DOMAIN dispatches[d].promise : dispatches[d].promise[i] = "resolved"

\* the chunks postMessage handed to worker w for dispatch d
PostedBy(d, w) == SelectSeq(posted[w], LAMBDA m : m.d = d)

C6_ProgressNeverRegresses ==
    [][\A d \in DOMAIN dispatches :
          dispatches'[d].progressCalls # dispatches[d].progressCalls =>
              /\ dispatches'[d].lastTotal = SumSeq(dispatches'[d].workerProgress)
              /\ dispatches'[d].lastTotal >= dispatches[d].lastTotal]_vars

InFlight(d) == d \in DOMAIN dispatches /\ dispatches[d].state = "pending"

\* C7: a dispatch in flight when terminate() is called eventually settles.
C7_TerminateSettlesInFlight ==
    \A d \in 1..2 :
        (InFlight(d) /\ dispatches[d].calledWhen = "none" /\ termState # "none")
            ~> ~InFlight(d)

\* C8: a dispatch called after terminate() has completed is rejected, for
\* every input, the empty one included.
C8_DispatchAfterTerminateRejects ==
    \A d \in DOMAIN dispatches :
        dispatches[d].calledWhen = "done" => dispatches[d].state = "rejected"

\* C9: a dispatch on an empty input is resolved to the empty array, has posted
\* nothing to any worker and has installed no listener on any worker.
C9_EmptyInputTouchesNoWorker ==
    \A d \in DOMAIN dispatches :
        ~NonEmpty(d) =>
            /\ Resolved(d)
            /\ dispatches[d].result = <<>>
            /\ \A w \in 1..size : PostedBy(d, w) = <<>> /\ d \notin installed[w]

\* an empty input was dispatched on a pool whose workers are there
C9_Witness ==
    \E d \in DOMAIN dispatches : ~NonEmpty(d) /\ dispatches[d].calledWhen = "none"

\* C10: a resolved dispatch has had the final message of every one of its
\* chunks; progress messages alone never resolve it.
C10_ResolvedOnlyAfterAllFinals ==
    \A d \in DOMAIN dispatches :
        Resolved(d) => \A i \in DOMAIN dispatches[d].chunks : <<d, i>> \in finalSent

\* a dispatch resolved after its workers had sent every progress message allowed
C10_Witness ==
    \E d \in DOMAIN dispatches :
        /\ Resolved(d)
        /\ NonEmpty(d)
        /\ progressMsgs = MaxProgress
        /\ dispatches[d].progressCalls = MaxProgress

\* C5: a pool of size 1 and a pool of size 4 resolve a dispatch of the same
\* input to the same array, element for element.
C5_SameResultForOneAndFourWorkers ==
    \A d, e \in DOMAIN dispatches :
        (/\ dispatches[d].poolSize = 1 /\ dispatches[e].poolSize = 4
         /\ dispatches[d].items = dispatches[e].items
         /\ Resolved(d) /\ Resolved(e)) =>
            dispatches[d].result = dispatches[e].result

\* C3: every response a browser sends for a forwarded tool call is handed to
\* the MCP client that sent the request, and to no other client.
C3_ResponseReachesItsRequester ==
    \A c \in 1..NumClients : \A m \in received[c] : m[2] = c

\* ============================================================ blastRadius
\* the call has returned
Returned == brReturn # "none"

\* the call has gone through the combination of lines 453-472
Combined == brReturn \in {"no_dependencies", "report"}

\* the depth the caller asked for, 3 when it named none
RequestedDepth == IF brArgs.maxDepth = NoDepth THEN DefaultDepth ELSE brArgs.maxDepth[1]

\* the node ids in the buckets
Reported == {allNodeIds[i] : i \in 1..Len(allNodeIds)}

\* the nodes whose shortest path from the target, in the direction of the
\* call, has exactly d relationships
FirstReachableAt(d) ==
    ExactHops(graph, {targetResults[1]}, brArgs.direction, d) \
        UNION {ExactHops(graph, {targetResults[1]}, brArgs.direction, e) : e \in 0..(d - 1)}

\* the relationship types impact analysis is specified to follow
DependencyTypes == {"CALLS", "IMPORTS", "EXTENDS", "IMPLEMENTS"}

\* C11: when the store answered every query, a call with requested depth D
\* has run one traversal of exactly d hops for every d in 1..min(D, 10), and
\* every node first reachable at such a distance d is reported.
C11_EveryDepthUpToTenIsTraversed ==
    (Combined /\ storeFailed = {}) =>
        \A d \in 1..Min(RequestedDepth, DepthCap) :
            /\ \E i \in 1..Len(depthQueries) : depthQueries[i] = d
            /\ FirstReachableAt(d) \subseteq Reported

\* C12: when the store answered every query, a downstream call of depth 1 from
\* X reports exactly the nodes Y with an edge X -> Y of type CALLS, IMPORTS,
\* EXTENDS or IMPLEMENTS.
C12_DownstreamDepth1IsTheDependencyEdges ==
    (Combined /\ storeFailed = {} /\ brArgs.direction = "downstream"
        /\ brArgs.maxDepth = <<1>>) =>
        Reported = {e[3] : e \in {x \in graph : x[1] = targetResults[1]
                                               /\ x[2] \in DependencyTypes}}

\* C13: no node id is in two depth buckets or twice in one bucket, and the
\* total is the sum of the bucket sizes.
C13_BucketsDisjointAndTotalIsTheirSum ==
    /\ \A d \in 1..MaxQueryDepth : \A i, j \in 1..Len(byDepth[d]) :
          i # j => byDepth[d][i] # byDepth[d][j]
    /\ \A d, e \in 1..MaxQueryDepth : \A i \in 1..Len(byDepth[d]) :
          \A j \in 1..Len(byDepth[e]) : d # e => byDepth[d][i] # byDepth[e][j]
    /\ totalAffected = SumSeq([d \in 1..MaxQueryDepth |-> Len(byDepth[d])])

\* a report in which the store returned some node for two depths
C13_Witness ==
    /\ brReturn = "report"
    /\ \E d, e \in 1..Len(depthResults) : \E i \in 1..Len(depthResults[d]) :
          \E j \in 1..Len(depthResults[e]) :
             d # e /\ depthResults[d][i] = depthResults[e][j]
    /\ Len(byDepth[1]) > 0 /\ Len(byDepth[2]) > 0

\* the graph of a.ts (defines foo) and b.ts (defines bar, which calls foo)
ScenarioGraph ==
    {<<"File:a.ts", "DEFINES", "Function:a.ts:foo">>,
     <<"File:b.ts", "DEFINES", "Function:b.ts:bar">>,
     <<"Function:b.ts:bar", "CALLS", "Function:a.ts:foo">>}

\* C14: on the graph of the scenario, when the store answered every query,
\* the upstream call from foo with depth 1 reports bar and nothing else.
C14_UpstreamOfFooIsBar ==
    (Combined /\ storeFailed = {} /\ graph = ScenarioGraph /\ brArgs.target = "foo"
        /\ brArgs.direction = "upstream" /\ brArgs.maxDepth = <<1>>) =>
        allNodeIds = <<"Function:b.ts:bar">>

\* C15: when the target lookup was answered, a target no node is named by
\* gives the not-found answer, and a target with no relationship in the
\* direction of the call gives the no-dependencies answer; neither is the
\* error answer, and the call does not throw.
C15_NoTargetOrNoEdgeIsAnEmptyResult ==
    (Returned /\ 0 \notin storeFailed) =>
        /\ {id \in NodeIds : NodeName(id) = brArgs.target} = {}
              => brReturn = "not_found"
        /\ (targetResults # <<>>
              /\ OneHop(graph, {targetResults[1]}, brArgs.direction) = {})
              => brReturn = "no_dependencies"

\* a target that has a relationship, but none in the direction of the call
C15_Witness ==
    /\ brReturn = "no_dependencies"
    /\ brArgs.maxDepth = NoDepth
    /\ storeFailed = {}
    /\ OneHop(graph, {targetResults[1]}, brArgs.direction) = {}
    /\ OneHop(graph, {targetResults[1]},
              IF brArgs.direction = "upstream" THEN "downstream" ELSE "upstream") # {}

\* C19: a call whose maxDepth is a number below 1 is not answered with the
\* no-dependencies result.
C19_InvalidDepthIsNotAnEmptyResult ==
    (Returned /\ brArgs.maxDepth # NoDepth /\ brArgs.maxDepth[1] < 1) =>
        brReturn # "no_dependencies"

\* ================================================================= search
\* a step in which a search call starts
SearchStarts == searchPc = "idle" /\ searchVars' # searchVars

\* C16: a search call goes to hybrid ranking when the lexical index is ready,
\* to semantic ranking alone when it is not and the embeddings are ready, and
\* returns the search-unavailable text, calling no ranking, when neither is.
C16_RankingFollowsReadiness ==
    [][SearchStarts =>
         /\ bm25Ready =>
               rankCalls' = <<"hybrid">> /\ searchReturn' = "none"
         /\ (~bm25Ready /\ embeddingReady) =>
               rankCalls' = <<"semantic">> /\ searchReturn' = "none"
         /\ (~bm25Ready /\ ~embeddingReady) =>
               rankCalls' = <<>> /\ searchReturn' = "unavailable"]_vars

\* a listing that semantic ranking alone produced, the lexical index not built
C16_Witness ==
    /\ searchReturn = "found"
    /\ rankCalls = <<"semantic">>
    /\ ~bm25Ready

\* C17: a search call in which a ranking collaborator threw does not throw.
C17_RankingFailureIsNotThrown ==
    (searchReturn # "none" /\ rankFailed # {}) => searchReturn # "thrown"

\* ================================================================= cypher
\* every initEmbedder call of the cypher call threw
EmbedderInitFailed ==
    /\ Len(initCalls) > 1
    /\ initCalls[Len(initCalls)] \in {"other", "wasm_failed"}

\* C18: a cypher call with the {{QUERY_VECTOR}} placeholder whose embedder
\* could not be initialised returns the embeddings-not-available text and has
\* sent no query to the store.
C18_NoEmbedderIsEmbeddingsNotAvailable ==
    (cyReturn # "none" /\ cyArgs.vector /\ EmbedderInitFailed) =>
        cyReturn = "embeddings_not_available" /\ storeQueries = 0

\* ========================================================= walkRepository
\* C20: at most 32 reads are in flight, and the reads in flight are reads of
\* the current batch: with the ones of it that have settled they make up the
\* batch, so no read of the next batch has started.
C20_AtMost32ReadsInFlight ==
    /\ inFlight <= READ_CONCURRENCY
    /\ walkPc = "reading" =>
          inFlight + fulfilled + rejected = BatchLen(filteredLen, start)

\* the second batch is being read, after the 32 reads of the first
C20_Witness ==
    /\ walkPc = "reading"
    /\ start = READ_CONCURRENCY
    /\ processed = READ_CONCURRENCY
    /\ inFlight > 1
    /\ rejected > 0

\* C21: every listed search result shows at most 3 outgoing and at most 3
\* incoming neighbours, however many its connections query returned.
C21_AtMostThreeNeighboursPerDirection ==
    \A i \in 1..Len(connections) :
        connections[i][1] <= 3 /\ connections[i][2] <= 3

\* a listing with a result whose query returned more than 3 neighbours in
\* both directions
C21_Witness ==
    /\ searchReturn = "found"
    /\ \E i \in 1..Len(connRes) :
          connRes[i][1] = "row" /\ connRes[i][2] > 3 /\ connRes[i][3] > 3

\* ================================================ dispatches on one pool
\* C22: every chunk promise of every dispatch that resolved holds the result of
\* that dispatch's own chunk, never one produced for a chunk of another
\* dispatch on the pool.
C22_EveryValueIsOfTheOwnChunk ==
    \A d \in DOMAIN dispatches : \A i \in DOMAIN dispatches[d].promise :
        dispatches[d].promise[i] = "resolved" =>
            dispatches[d].values[i] = WorkerResult(dispatches[d].chunks[i])

RECURSIVE Concat(_)
\* the concatenation of a list of lists
Concat(ss) == IF ss = <<>> THEN <<>> ELSE Head(ss) \o Concat(Tail(ss))

\* C23: the chunks of a dispatch on N >= 1 items are non-empty, their
\* concatenation in order is the input, and there are at most P of them; on a
\* pool that still has its P workers, chunk i, and nothing else of the
\* dispatch, is posted to worker i.
C23_ChunksPartitionTheInput ==
    \A d \in DOMAIN dispatches :
        NonEmpty(d) =>
            LET ch == dispatches[d].chunks
            IN  /\ \A i \in DOMAIN ch : ch[i] # <<>>
                /\ Concat(ch) = dispatches[d].items
                /\ Len(ch) <= dispatches[d].poolSize
                /\ dispatches[d].calledWhen # "done" =>
                       \A i \in DOMAIN ch :
                           PostedBy(d, i) = <<[d |-> d, chunk |-> ch[i]]>>

\* a dispatch of more items than workers whose last chunk is the short one
C23_Witness ==
    \E d \in DOMAIN dispatches :
        /\ dispatches[d].calledWhen # "done"
        /\ Len(dispatches[d].items) > size
        /\ Len(dispatches[d].chunks) = size
        /\ Len(dispatches[d].chunks[size]) < Len(dispatches[d].chunks[1])
        /\ PostedBy(d, size) # <<>>

\* ============================================================ blastRadius
\* C30: the node the call took for its target is not among the affected
\* nodes it reports.
C30_TargetIsNotAffected ==
    Combined => targetResults[1] \notin Reported

\* C31: every reported node other than the target is in the bucket of its
\* minimum hop distance from the target in the direction of the call,
\* whatever the store gave for the per-depth queries.
C31_BucketIsTheMinimumDistance ==
    Combined =>
        \A d \in 1..MaxQueryDepth : \A i \in 1..Len(byDepth[d]) :
            byDepth[d][i] # targetResults[1] => byDepth[d][i] \in FirstReachableAt(d)

\* C32: a call in which the store rejected a per-depth query returns neither
\* the 'no dependencies found' text nor the report with its trusted marker.
C32_StoreFailureIsNotAnAnalysis ==
    (Returned /\ storeFailed \cap (1..MaxQueryDepth) # {}) =>
        brReturn \notin {"no_dependencies", "report"}

\* ==================================================== streamAgentResponse
Terminal(chunk) == chunk.type \in {"done", "error"}

\* C33: a terminal chunk is the last chunk and the generator has ended with
\* it; a run that has ended has yielded one, 'done' if the agent stream was
\* exhausted and 'error' if something threw.
C33_OneTerminalChunkAtTheEnd ==
    /\ \A i \in 1..Len(saChunks) :
          Terminal(saChunks[i]) => i = Len(saChunks) /\ saPc = "ended"
    /\ saPc = "ended" =>
          /\ saChunks # <<>>
          /\ saOutcome \in {"completed", "threw"}
          /\ saChunks[Len(saChunks)].type =
                 IF saOutcome = "completed" THEN "done" ELSE "error"

\* a run that yielded a tool call and then ended in the catch
C33_Witness ==
    /\ saPc = "ended"
    /\ saOutcome = "threw"
    /\ Len(saChunks) >= 3
    /\ saChunks[1].type = "tool_call"

\* C34: no two tool_call chunks carry the same id, and no two tool_result
\* chunks do.
C34_ToolIdsAreYieldedOnce ==
    \A i, j \in 1..Len(saChunks) :
        (/\ i # j
         /\ saChunks[i].type = saChunks[j].type
         /\ saChunks[i].type \in {"tool_call", "tool_result"})
        => saChunks[i].id # saChunks[j].id

\* a tool call id came both in a messages event and in a snapshot, and the
\* run has yielded a tool_call chunk for it
C34_Witness ==
    \E id \in ToolIds :
        /\ {<<"messages", "call", id>>, <<"values", "call", id>>} \subseteq saDelivered
        /\ \E i \in 1..Len(saChunks) : saChunks[i] = Chunk("tool_call", id)

\* ============================================================ MCP daemon
\* C29: the context the daemon holds, which it serves to getContext and sends
\* to a newly connected MCP client, is the context the browser that is
\* connected now has sent.
C29_ServedContextIsOfCurrentBrowser ==
    currentContext # 0 => currentContext = browserClient

\* C25: a tool call that client c sends while the daemon has no browser, or
\* one whose socket is not open, is answered to c with an error response of
\* the call's id (the callTool promise rejects); nothing goes to another
\* client, nothing is forwarded to a browser, and the daemon's table of
\* pending requests is as before.
C25_NoBrowserIsAnErrorToTheCaller ==
    [][\A c \in 1..NumClients :
          (/\ ~(browserClient # 0 /\ bsock[browserClient] = "open")
           /\ CallTool(c, "tool"))
          => LET id == clients[c].requestId + 1
             IN  /\ <<id, c>> \in received'[c]
                 /\ clients'[c].calls[id] = "rejected"
                 /\ id \notin clients'[c].pending
                 /\ \A o \in 1..NumClients \ {c} :
                        received'[o] = received[o] /\ clients'[o] = clients[o]
                 /\ atBrowser' = atBrowser
                 /\ daemonPending' = daemonPending]_vars

\* a client got the error for a call made before any browser had connected
C25_Witness ==
    /\ \A b \in 1..MaxBrowsers : bsock[b] = "none"
    /\ \E c \in 1..NumClients : \E id \in DOMAIN clients[c].calls :
          /\ <<id, c>> \in received[c]
          /\ clients[c].calls[id] = "rejected"
          /\ daemonPending[id] = 0

\* C27: the 'close' event of a socket that disconnect() closed, delivered
\* when the client has connected again, leaves the client connected, its
\* pending requests pending and its context as it was.
C27_OldCloseLeavesTheNewConnection ==
    [][\A c \in 1..NumClients :
          (oldSocks'[c] < oldSocks[c] /\ IsOpen(c))
          => /\ clients'[c].ws = "open"
             /\ clients'[c].pending = clients[c].pending
             /\ clients'[c].calls = clients[c].calls
             /\ clients'[c].context = clients[c].context]_vars

\* the only open browser socket is the one held in cur
HoldsTheOnlyOpen(sock, cur) == \A b \in 1..MaxBrowsers : sock[b] = "open" => cur = b

\* a step that opens a socket makes it the held one, and a step that closes
\* a socket other than the held one leaves the held one
ReplacesAndKeeps(sock, sockNext, cur, curNext) ==
    \A b \in 1..MaxBrowsers :
        /\ (sock[b] = "none" /\ sockNext[b] = "open") => curNext = b
        /\ (sock[b] # "closed" /\ sockNext[b] = "closed" /\ cur # b) => curNext = cur

\* C26: the daemon and the bridge each have at most one open browser socket,
\* the one they hold; a new browser connection becomes the held one and the
\* previous one is no longer open; the close event of a socket that is not
\* the held one leaves the held one in place.
C26_OneBrowserConnection ==
    /\ [](HoldsTheOnlyOpen(bsock, browserClient) /\ HoldsTheOnlyOpen(wbSock, wbClient))
    /\ [][/\ ReplacesAndKeeps(bsock, bsock', browserClient, browserClient')
          /\ ReplacesAndKeeps(wbSock, wbSock', wbClient, wbClient')]_vars

\* browser 1 sent its context, was replaced by browser 2, and its socket's
\* close event has been handled: had browser 1 still been the held one then,
\* the context would be null
C26_Witness ==
    /\ bsock[1] = "closed"
    /\ currentContext = 1
    /\ browserClient = 2
    /\ bsock[2] = "open"

\* ---- the callTool promises
PendingCall(c, n) == n \in DOMAIN clients[c].calls /\ clients[c].calls[n] = "pending"
WbPendingCall(i) == i \in DOMAIN wbCalls /\ wbCalls[i].state = "pending"

\* a promise that has settled keeps its outcome
SettledCallsStay ==
    /\ \A c \in 1..NumClients : \A n \in DOMAIN clients[c].calls :
          clients[c].calls[n] # "pending" => clients'[c].calls[n] = clients[c].calls[n]
    /\ \A i \in DOMAIN wbCalls :
          wbCalls[i].state # "pending" => wbCalls'[i] = wbCalls[i]

\* every pending promise settles
PendingCallsSettle ==
    /\ \A c \in 1..NumClients : \A n \in 1..MaxReq : PendingCall(c, n) ~> ~PendingCall(c, n)
    /\ \A i \in 1..MaxReq : WbPendingCall(i) ~> ~WbPendingCall(i)

\* the browser answers a request whose promise has timed out (the caller is
\* still connected and no longer waits for it): no promise changes
LateResponseChangesNothing ==
    /\ \A r \in atBrowser :
          (/\ r \notin atBrowser'
           /\ bsock' = bsock
           /\ IsOpen(r.origin)
           /\ r.id \notin clients[r.origin].pending)
          => clients' = clients
    /\ \A r \in wbAtBrowser :
          (r \notin wbAtBrowser' /\ wbSock' = wbSock /\ r.id \notin wbPending)
          => wbCalls' = wbCalls /\ wbPending' = wbPending

\* C24: every callTool promise of a DaemonClient and of the bridge settles,
\* keeps the outcome it settled with, and a response that comes after the
\* timeout of its request changes no promise, pending or settled.
C24_EveryCallSettlesOnce ==
    /\ [][SettledCallsStay]_vars
    /\ PendingCallsSettle
    /\ [][LateResponseChangesNothing]_vars

\* What the runtime does by itself: a worker that holds a chunk finishes it, a
\* thread told to terminate stops, the await of terminate() returns.
PoolRuntime ==
    \/ \E w \in 1..size, typed \in BOOLEAN : WorkerFinal(w, typed) /\ UNCHANGED nonPoolVars
    \/ \E w \in 1..size : WorkerExit(w) /\ UNCHANGED nonPoolVars
    \/ TerminateDone /\ UNCHANGED nonPoolVars

\* Spec with the scheduling of the runtime: its steps are not put off forever.
SpecLive == Spec /\ WF_vars(PoolRuntime)

\* What the daemon's runtime does by itself: the 30 s timer of a pending
\* callTool fires, and a socket the daemon has closed gets its 'close' event.
DaemonRuntime ==
    \/ \E c \in 1..NumClients, id \in 1..MaxReq : CallTimeout(c, id) /\ UNCHANGED nonDaemonVars
    \/ \E b \in 1..MaxBrowsers :
          bsock[b] = "closing" /\ BrowserClose(b) /\ UNCHANGED nonDaemonVars

\* The same for the calls of either server: the timers fire.
CallsRuntime ==
    \/ \E c \in 1..NumClients, id \in 1..MaxReq : CallTimeout(c, id) /\ UNCHANGED nonDaemonVars
    \/ \E id \in 1..MaxReq : WbTimeout(id) /\ UNCHANGED nonBridgeVars

SpecCallsLive == SpecCalls /\ WF_vars(CallsRuntime)

\* SpecDaemon with the scheduling of the runtime.
SpecDaemonLive == SpecDaemon /\ WF_vars(DaemonRuntime)

\* C28: when the browser is gone and the daemon's context is null, an MCP
\* client that is connected and still caches a context eventually caches
\* null (or the daemon has a context again, of a browser that came later).
C28_ClientContextIsEventuallyCleared ==
    \A c \in 1..NumClients :
        (browserClient = 0 /\ currentContext = 0 /\ IsOpen(c) /\ clients[c].context # 0)
            ~> (clients[c].context = 0 \/ currentContext # 0)

====
